---- MODULE Spec2Model ----
(***************************************************************************)
(* A model of the zast front end: the Pratt parser (src/parser.rs,         *)
(* src/parser/expressions.rs, src/parser/statements.rs,                    *)
(* src/parser/types.rs), its panic-mode recovery and its error collector   *)
(* (src/error_handler.rs), and the semantic analyzer (src/sema.rs) with    *)
(* its scoped symbol table (src/sema/symbol_type_table.rs) and the type    *)
(* resolver (src/types.rs, src/types/annotated_type.rs).                   *)
(*                                                                         *)
(* The parse functions are recursive descent over an immutable token       *)
(* vector; each one is an operator from the parser's mutable fields        *)
(* (current_token_ptr, errors) to those fields after the call plus the     *)
(* Option it returns.  parse_program's loop and sync_tokens' loop are the  *)
(* steps of the state machine.                                             *)
(***************************************************************************)
EXTENDS Integers, Sequences, FiniteSets, TLC

(***************************************************************************)
(* Bounds of the model.                                                    *)
(***************************************************************************)
\* longest token sequence over CoreAlphabet that is enumerated exhaustively
MaxLen == 4
\* largest number of binary operators in an enumerated operator chain
MaxOps == 2
\* largest number of statement fragments in an enumerated program
MaxStmts == 2
\* largest number of parameters in an enumerated parameter list
MaxParams == 2
\* longest token sequence on which check and expect are called directly
MaxHelperLen == 2

(***************************************************************************)
(* Precedence levels: the discriminants of the repr(u8) enum Precedence.   *)
(***************************************************************************)
Default == 0
Assignment == 1
Ternary == 2
LogicalOr == 3
LogicalAnd == 4
Equals == 5
Comparison == 6
Additive == 7
Multiplicative == 8
Unary == 9
Exponent == 10
Call == 11
Grouping == 12

(***************************************************************************)
(* Tokens.  A token is its kind, its literal payload and its span; the     *)
(* scanner is outside the model, so token number i (1-based) stands on     *)
(* line 1 and occupies column i.                                           *)
(***************************************************************************)
Span(cs, ce) == [col_start |-> cs, col_end |-> ce, ln_start |-> 1, ln_end |-> 1]

IntegerLexemes == {"1", "2", "3", "4", "5"}

KindOf(lexeme) ==
    CASE lexeme = "EOF" -> "Eof"
      [] lexeme = ";" -> "Semicolon"
      [] lexeme = "," -> "Comma"
      [] lexeme = ":" -> "Colon"
      [] lexeme = "=" -> "Assignment"
      [] lexeme = "+" -> "Plus"
      [] lexeme = "-" -> "Minus"
      [] lexeme = "*" -> "Multiply"
      [] lexeme = "/" -> "Divide"
      [] lexeme = "&" -> "Ampersand"
      [] lexeme = "(" -> "LeftParenthesis"
      [] lexeme = ")" -> "RightParenthesis"
      [] lexeme = "{" -> "LeftBrace"
      [] lexeme = "}" -> "RightBrace"
      [] lexeme = "let" -> "Let"
      [] lexeme = "const" -> "Const"
      [] lexeme = "fn" -> "Fn"
      [] lexeme \in IntegerLexemes -> "Integer"
      [] OTHER -> "Identifier"

LiteralOf(lexeme) ==
    CASE KindOf(lexeme) = "Identifier" -> [tag |-> "Identifier", value |-> lexeme]
      [] KindOf(lexeme) = "Integer" -> [tag |-> "IntegerValue", value |-> lexeme]
      [] OTHER -> [tag |-> "None", value |-> ""]

\* the token vector the scanner hands over for a list of lexemes: the
\* lexemes in order, then exactly one Eof
Lex(lexemes) ==
    [i \in 1..(Len(lexemes) + 1) |->
        LET lx == IF i <= Len(lexemes) THEN lexemes[i] ELSE "EOF"
        IN [kind |-> KindOf(lx), literal |-> LiteralOf(lx), span |-> Span(i, i)]]

get_identifier(literal) ==
    IF literal.tag = "Identifier" THEN [some |-> TRUE, val |-> literal.value]
    ELSE [some |-> FALSE, val |-> ""]

(***************************************************************************)
(* The parser's mutable fields are threaded through the parse functions    *)
(* as s = [ptr |-> current_token_ptr, errors |-> errors.errors].           *)
(* A parse function returns [ok, s, node]: ok is is_some() of its Option,  *)
(* node the value inside Some.                                             *)
(***************************************************************************)
NoNode == [node |-> "None"]
Some(s, n) == [ok |-> TRUE, s |-> s, node |-> n]
Fail(s) == [ok |-> FALSE, s |-> s, node |-> NoNode]

current_token(toks, s) == toks[s.ptr + 1]
current_token_kind(toks, s) == current_token(toks, s).kind

peek_at(toks, s, n) ==
    IF s.ptr + n >= Len(toks) THEN toks[s.ptr + 1] ELSE toks[s.ptr + n + 1]

is_at_eof(toks, s) == current_token_kind(toks, s) = "Eof"

\* advance wrapping to the first token at the end of the vector
advance_wraps(toks, s) ==
    IF s.ptr + 1 < Len(toks) THEN [s EXCEPT !.ptr = @ + 1] ELSE [s EXCEPT !.ptr = 0]

advance(toks, s) ==
    IF s.ptr + 1 < Len(toks) THEN [s EXCEPT !.ptr = @ + 1] ELSE s

\* add_error keeping only the newest diagnostic
add_error_replacing(errs, zast_error) == <<zast_error>>

add_error(errs, zast_error) == Append(errs, zast_error)

has_errors(errs) == errs # <<>>

throw_error(s, err) == [s EXCEPT !.errors = add_error(@, err)]

ExpectedTok(kind) == [tag |-> "Token", val |-> kind]
ExpectedConcept(text) == [tag |-> "Concept", val |-> text]

ExpectedTokenError(span, expected, found) ==
    [type |-> "ExpectedToken", span |-> span,
     expected_tokens |-> expected, found_token |-> found]

UnexpectedTokenError(span, kind) ==
    [type |-> "UnexpectedToken", span |-> span, token_kind |-> kind]

\* returns [ok, s]
check(toks, s, expected) ==
    LET tok == current_token(toks, s)
        tok_kind == current_token_kind(toks, s)
        matches == \E i \in 1..Len(expected) :
                      /\ expected[i].tag = "Token"
                      /\ tok_kind = expected[i].val
    IN IF matches THEN [ok |-> TRUE, s |-> s]
       ELSE [ok |-> FALSE,
             s |-> throw_error(s, ExpectedTokenError(tok.span, expected, tok_kind))]

\* expect advancing whether or not the token matched
expect_always_advances(toks, s, expected) ==
    LET c == check(toks, s, expected)
    IN IF c.ok THEN [ok |-> TRUE, s |-> advance(toks, c.s)]
       ELSE [ok |-> FALSE, s |-> advance(toks, c.s)]

expect(toks, s, expected) ==
    LET c == check(toks, s, expected)
    IN IF c.ok THEN [ok |-> TRUE, s |-> advance(toks, c.s)]
       ELSE [ok |-> FALSE, s |-> c.s]

(***************************************************************************)
(* Precedence table.  Its callers take an Option (parser.rs:251-253 maps   *)
(* and unwrap_or(0)s it, expressions.rs:152 unwrap_or(Default)s it), so    *)
(* a kind without an entry is the absent case.                             *)
(***************************************************************************)
\* what get_precedence hands its callers for a kind without an entry
NoPrecedence == [some |-> FALSE, val |-> 0]

\* get_precedence with the additive and multiplicative levels exchanged
get_precedence_swapped(token_kind) ==
    CASE token_kind \in {"Plus", "Minus"} -> [some |-> TRUE, val |-> Multiplicative]
      [] token_kind \in {"Multiply", "Divide"} -> [some |-> TRUE, val |-> Additive]
      [] token_kind = "LeftParenthesis" -> [some |-> TRUE, val |-> Grouping]
      [] OTHER -> NoPrecedence

get_precedence(token_kind) ==
    CASE token_kind \in {"Plus", "Minus"} -> [some |-> TRUE, val |-> Additive]
      [] token_kind \in {"Multiply", "Divide"} -> [some |-> TRUE, val |-> Multiplicative]
      [] token_kind = "LeftParenthesis" -> [some |-> TRUE, val |-> Grouping]
      [] OTHER -> NoPrecedence

\* current_token_precedence ranking a kind without an entry above every level
current_token_precedence_unbound_high(toks, s) ==
    LET p == get_precedence(current_token_kind(toks, s))
    IN IF p.some THEN p.val ELSE Grouping + 1

current_token_precedence(toks, s) ==
    LET p == get_precedence(current_token_kind(toks, s))
    IN IF p.some THEN p.val ELSE 0

\* the dispatch tables filled by ZastParser::new
nud_lookup ==
    [k \in {"Multiply", "Ampersand", "Integer", "Float", "Identifier", "LeftParenthesis"} |->
        CASE k = "Multiply" -> "parse_deref_expr"
          [] k = "Ampersand" -> "parse_addr_expr"
          [] k = "Integer" -> "parse_integer_literal"
          [] k = "Float" -> "parse_float_literal"
          [] k = "Identifier" -> "parse_identifier_literal"
          [] k = "LeftParenthesis" -> "parse_grouping_expression"]

led_lookup == [k \in {"Plus", "Minus", "Divide", "Multiply"} |-> "parse_binary_expr"]

stmt_lookup ==
    [k \in {"Let", "Const", "Fn"} |->
        IF k = "Fn" THEN "parse_function_declaration" ELSE "parse_variable_declaration"]

(***************************************************************************)
(* The `?` operator and the `if !... { return None; }` idiom: when r        *)
(* succeeded go on with K(r), otherwise return None with the parser        *)
(* fields as r left them.  r is bound once, as the code's `let` binds it.   *)
(***************************************************************************)
Try(r, K(_)) ==
    CHOOSE out \in {IF x.ok THEN K(x) ELSE Fail(x.s) : x \in {r}} : TRUE

\* `let v = <Option>?;` for an Option that does not touch the parser
TrySome(opt, s, K(_)) ==
    CHOOSE out \in {IF x.some THEN K(x.val) ELSE Fail(s) : x \in {opt}} : TRUE

\* the span from the start of span a to the end of span b
SpanFromTo(a, b) ==
    [col_start |-> a.col_start, col_end |-> b.col_end,
     ln_start |-> a.ln_start, ln_end |-> b.ln_end]

(***************************************************************************)
(* Expression engine (src/parser/expressions.rs).                          *)
(***************************************************************************)
RECURSIVE try_parse_expr(_, _, _)
RECURSIVE infix_loop(_, _, _, _)
RECURSIVE parse_binary_expr(_, _, _)
RECURSIVE parse_deref_expr(_, _)
RECURSIVE parse_addr_expr(_, _)
RECURSIVE parse_grouping_expression(_, _)

\* the three literal NUDs: a leaf spanning the current token, then advance
parse_literal(toks, s, variant) ==
    Some(advance(toks, s),
         [node |-> variant,
          value |-> current_token(toks, s).literal.value,
          span |-> current_token(toks, s).span])

parse_integer_literal(toks, s) == parse_literal(toks, s, "IntegerLiteral")

parse_float_literal(toks, s) == parse_literal(toks, s, "FloatLiteral")

parse_identifier_literal(toks, s) == parse_literal(toks, s, "Identifier")

\* the node of a unary operator at op_span around operand
UnaryNode(variant, op_span, operand) ==
    [node |-> variant, inner |-> operand, span |-> SpanFromTo(op_span, operand.span)]

\* parse_deref_expr parsing its operand at Default precedence
parse_deref_expr_greedy(toks, s) ==
    Try(try_parse_expr(toks, advance(toks, s), Default),
        LAMBDA operand :
            Some(operand.s,
                 UnaryNode("Dereference", current_token(toks, s).span, operand.node)))

parse_deref_expr(toks, s) ==
    Try(try_parse_expr(toks, advance(toks, s), Unary),
        LAMBDA operand :
            Some(operand.s,
                 UnaryNode("Dereference", current_token(toks, s).span, operand.node)))

parse_addr_expr(toks, s) ==
    Try(try_parse_expr(toks, advance(toks, s), Unary),
        LAMBDA operand :
            Some(operand.s,
                 UnaryNode("Address", current_token(toks, s).span, operand.node)))

BinaryNode(left, op, right) ==
    [node |-> "BinaryExpression", left |-> left, operator |-> op, right |-> right,
     span |-> SpanFromTo(left.span, right.span)]

\* get_precedence(op).unwrap_or(Precedence::Default)
precedence_or_default(p) == IF p.some THEN p.val ELSE Default

\* parse_binary_expr parsing its right-hand side one level below the operator
parse_binary_expr_right_assoc(toks, s, left) ==
    Try(try_parse_expr(toks, advance(toks, s),
                       precedence_or_default(get_precedence(current_token(toks, s).kind)) - 1),
        LAMBDA right :
            Some(right.s, BinaryNode(left, current_token(toks, s).kind, right.node)))

parse_binary_expr(toks, s, left) ==
    Try(try_parse_expr(toks, advance(toks, s),
                       precedence_or_default(get_precedence(current_token(toks, s).kind))),
        LAMBDA right :
            Some(right.s, BinaryNode(left, current_token(toks, s).kind, right.node)))

\* parse_grouping_expression testing for the `)` without consuming it
parse_grouping_expression_no_consume(toks, s) ==
    Try(try_parse_expr(toks, advance(toks, s), Default),
        LAMBDA expr :
            Try(check(toks, expr.s, <<ExpectedTok("RightParenthesis")>>),
                LAMBDA e : Some(e.s, expr.node)))

parse_grouping_expression(toks, s) ==
    Try(try_parse_expr(toks, advance(toks, s), Default),
        LAMBDA expr :
            Try(expect(toks, expr.s, <<ExpectedTok("RightParenthesis")>>),
                LAMBDA e : Some(e.s, expr.node)))

\* the call through a NUD function pointer
call_nud(name, toks, s) ==
    CASE name = "parse_deref_expr" -> parse_deref_expr(toks, s)
      [] name = "parse_addr_expr" -> parse_addr_expr(toks, s)
      [] name = "parse_integer_literal" -> parse_integer_literal(toks, s)
      [] name = "parse_float_literal" -> parse_float_literal(toks, s)
      [] name = "parse_identifier_literal" -> parse_identifier_literal(toks, s)
      [] name = "parse_grouping_expression" -> parse_grouping_expression(toks, s)

\* the while loop of try_parse_expr, entered with the state after the NUD
infix_loop(toks, s, prec, left) ==
    IF is_at_eof(toks, s) THEN Some(s, left)
    ELSE IF prec >= current_token_precedence(toks, s) THEN Some(s, left)
    ELSE IF current_token_kind(toks, s) \in DOMAIN led_lookup
         THEN Try(parse_binary_expr(toks, s, left),
                  LAMBDA l : infix_loop(toks, l.s, prec, l.node))
         ELSE Some(s, left)

try_parse_expr(toks, s, precedence) ==
    IF current_token_kind(toks, s) \in DOMAIN nud_lookup
    THEN Try(call_nud(nud_lookup[current_token_kind(toks, s)], toks, s),
             LAMBDA left : infix_loop(toks, left.s, precedence, left.node))
    ELSE Fail(throw_error(s, UnexpectedTokenError(current_token(toks, s).span,
                                                  current_token_kind(toks, s))))

(***************************************************************************)
(* Type annotations (src/parser/types.rs).                                 *)
(***************************************************************************)
RECURSIVE try_parse_value_type(_, _)

parse_primitive_type(toks, s) ==
    TrySome(get_identifier(current_token(toks, s).literal), s,
            LAMBDA primitive :
                Some(advance(toks, s), [type |-> "Primitive", name |-> primitive]))

parse_pointer_type(toks, s) ==
    Try(try_parse_value_type(toks, advance(toks, s)),
        LAMBDA inner : Some(inner.s, [type |-> "Pointer", inner |-> inner.node]))

try_parse_value_type(toks, s) ==
    CASE current_token_kind(toks, s) = "Multiply" -> parse_pointer_type(toks, s)
      [] current_token_kind(toks, s) = "Identifier" -> parse_primitive_type(toks, s)
      [] OTHER ->
            Fail(throw_error(s, ExpectedTokenError(current_token(toks, s).span,
                        <<ExpectedConcept("type annotation")>>,
                        current_token_kind(toks, s))))

try_parse_return_type(toks, s) ==
    TrySome(get_identifier(current_token(toks, s).literal), s,
            LAMBDA return_type_str :
                IF return_type_str = "void"
                THEN Some(advance(toks, s), [type |-> "Void"])
                ELSE Try(try_parse_value_type(toks, s),
                         LAMBDA return_type :
                             Some(return_type.s,
                                  [type |-> "Type", inner |-> return_type.node])))

(***************************************************************************)
(* Statement engine (src/parser/statements.rs).                            *)
(***************************************************************************)
RECURSIVE try_parse_stmt(_, _)
RECURSIVE block_loop(_, _, _)
RECURSIVE param_loop(_, _, _)
RECURSIVE parse_block_statement(_, _)
RECURSIVE parse_function_declaration(_, _)

\* FunctionParameter.span, which the analyzer reads (sema.rs, param.span) and
\* the parser shown does not set: the parameter's text, from its name to the
\* last token of its type.  s is the parser at the name, e after the type.
FunctionParameterSpan(toks, s, e) ==
    SpanFromTo(current_token(toks, s).span, toks[e.ptr].span)

parse_single_param(toks, s) ==
    Try(check(toks, s, <<ExpectedTok("Identifier")>>), LAMBDA c :
    TrySome(get_identifier(current_token(toks, c.s).literal), c.s, LAMBDA name :
    Try(expect(toks, advance(toks, c.s), <<ExpectedTok("Colon")>>), LAMBDA e :
    Try(try_parse_value_type(toks, e.s), LAMBDA annotated_type :
    Some(annotated_type.s,
         [name |-> name, annotated_type |-> annotated_type.node,
          span |-> FunctionParameterSpan(toks, c.s, annotated_type.s)])))))

\* the loop demanding a parameter after every comma
param_loop_after_comma_strict(toks, s, params) ==
    Try(parse_single_param(toks, s),
        LAMBDA p : param_loop(toks, p.s, Append(params, p.node)))

\* what the while loop of parse_function_parameter does after eating `,`
param_loop_after_comma(toks, s, params) ==
    IF current_token_kind(toks, s) = "RightParenthesis"
    THEN Some(s, params)
    ELSE Try(parse_single_param(toks, s),
             LAMBDA p : param_loop(toks, p.s, Append(params, p.node)))

\* the while loop of parse_function_parameter; node is the params vector
param_loop(toks, s, params) ==
    IF ~is_at_eof(toks, s) /\ current_token_kind(toks, s) = "Comma"
    THEN param_loop_after_comma(toks, advance(toks, s), params)
    ELSE Some(s, params)

parse_function_parameter(toks, s) ==
    Try(expect(toks, s, <<ExpectedTok("LeftParenthesis")>>), LAMBDA e :
    IF current_token_kind(toks, e.s) = "RightParenthesis"
    THEN Some(advance(toks, e.s), <<>>)
    ELSE Try(parse_single_param(toks, e.s), LAMBDA first :
         Try(param_loop(toks, first.s, <<first.node>>), LAMBDA params :
         Try(expect(toks, params.s, <<ExpectedTok("RightParenthesis")>>), LAMBDA c :
         Some(c.s, params.node)))))

\* the while loop of parse_block_statement; node is the stmts vector
block_loop(toks, s, stmts) ==
    IF ~is_at_eof(toks, s) /\ current_token_kind(toks, s) # "RightBrace"
    THEN Try(try_parse_stmt(toks, s),
             LAMBDA stmt : block_loop(toks, stmt.s, Append(stmts, stmt.node)))
    ELSE Some(s, stmts)

parse_block_statement(toks, s) ==
    Try(expect(toks, s, <<ExpectedTok("LeftBrace")>>), LAMBDA e :
    Try(block_loop(toks, e.s, <<>>), LAMBDA stmts :
    Try(expect(toks, stmts.s, <<ExpectedTok("RightBrace")>>), LAMBDA c :
    Some(c.s, [node |-> "BlockStatement",
               statements |-> stmts.node,
               span |-> SpanFromTo(current_token(toks, s).span,
                                   current_token(toks, stmts.s).span)]))))

parse_function_declaration(toks, s) ==
    Try(check(toks, advance(toks, s), <<ExpectedTok("Identifier")>>), LAMBDA c :
    TrySome(get_identifier(current_token(toks, c.s).literal), c.s, LAMBDA fn_name :
    Try(parse_function_parameter(toks, advance(toks, c.s)), LAMBDA parameters :
    Try(expect(toks, parameters.s, <<ExpectedTok("Colon")>>), LAMBDA e :
    Try(try_parse_return_type(toks, e.s), LAMBDA return_type :
    Try(parse_block_statement(toks, return_type.s), LAMBDA body :
    Some(body.s, [node |-> "FunctionDeclaration",
                  name |-> fn_name,
                  parameters |-> parameters.node,
                  return_type |-> return_type.node,
                  body |-> body.node,
                  span |-> SpanFromTo(current_token(toks, s).span,
                                      body.node.span)])))))))

parse_variable_declaration(toks, s) ==
    Try(check(toks, advance(toks, s), <<ExpectedTok("Identifier")>>), LAMBDA c :
    TrySome(get_identifier(current_token(toks, c.s).literal), c.s, LAMBDA identifier :
    Try(expect(toks, advance(toks, c.s), <<ExpectedTok("Colon")>>), LAMBDA e1 :
    Try(try_parse_value_type(toks, e1.s), LAMBDA value_type :
    Try(expect(toks, value_type.s, <<ExpectedTok("Assignment")>>), LAMBDA e2 :
    Try(try_parse_expr(toks, e2.s, Default), LAMBDA value :
    Try(expect(toks, value.s, <<ExpectedTok("Semicolon")>>), LAMBDA e3 :
    Some(e3.s, [node |-> "VariableDeclaration",
                mutable |-> (current_token_kind(toks, s) = "Let"),
                identifier |-> identifier,
                annotated_type |-> value_type.node,
                value |-> value.node,
                span |-> SpanFromTo(current_token(toks, s).span,
                                    value.node.span)]))))))))

\* the call through a statement function pointer
call_stmt(name, toks, s) ==
    CASE name = "parse_variable_declaration" -> parse_variable_declaration(toks, s)
      [] name = "parse_function_declaration" -> parse_function_declaration(toks, s)

try_parse_stmt(toks, s) ==
    IF current_token_kind(toks, s) \in DOMAIN stmt_lookup
    THEN call_stmt(stmt_lookup[current_token_kind(toks, s)], toks, s)
    ELSE Try(try_parse_expr(toks, s, Default), LAMBDA stmt_expr :
         Try(expect(toks, stmt_expr.s, <<ExpectedTok("Semicolon")>>), LAMBDA e :
         Some(e.s, [node |-> "Expression",
                    expression |-> stmt_expr.node,
                    span |-> stmt_expr.node.span])))

(***************************************************************************)
(* Panic-mode recovery (src/parser.rs, sync_tokens).  One iteration of     *)
(* its while loop from parser fields s and the local depth d; ret says     *)
(* whether the function returned (loop exit included).                     *)
(***************************************************************************)
\* sync_tokens skipping an ordinary token without advancing
sync_tokens_iter_stuck(toks, s, d) ==
    IF is_at_eof(toks, s) THEN [s |-> s, depth |-> d, ret |-> TRUE]
    ELSE CASE current_token_kind(toks, s) \in {"LeftParenthesis", "LeftBrace"} ->
                [s |-> advance(toks, s), depth |-> d + 1, ret |-> FALSE]
           [] current_token_kind(toks, s) \in {"RightParenthesis", "RightBrace"} ->
                IF d = 0 THEN [s |-> advance(toks, s), depth |-> d, ret |-> TRUE]
                ELSE [s |-> advance(toks, s), depth |-> d - 1, ret |-> FALSE]
           [] current_token_kind(toks, s) = "Semicolon" ->
                [s |-> advance(toks, s), depth |-> d, ret |-> (d = 0)]
           [] OTHER ->
                [s |-> s, depth |-> d, ret |-> FALSE]

\* sync_tokens stopping at every `;`, whatever the depth
sync_tokens_iter_any_semicolon(toks, s, d) ==
    IF is_at_eof(toks, s) THEN [s |-> s, depth |-> d, ret |-> TRUE]
    ELSE CASE current_token_kind(toks, s) \in {"LeftParenthesis", "LeftBrace"} ->
                [s |-> advance(toks, s), depth |-> d + 1, ret |-> FALSE]
           [] current_token_kind(toks, s) \in {"RightParenthesis", "RightBrace"} ->
                IF d = 0 THEN [s |-> advance(toks, s), depth |-> d, ret |-> TRUE]
                ELSE [s |-> advance(toks, s), depth |-> d - 1, ret |-> FALSE]
           [] current_token_kind(toks, s) = "Semicolon" ->
                [s |-> advance(toks, s), depth |-> d, ret |-> TRUE]
           [] OTHER ->
                [s |-> advance(toks, s), depth |-> d, ret |-> FALSE]

\* sync_tokens returning at a depth-0 closer without consuming it
sync_tokens_iter_keeps_closer(toks, s, d) ==
    IF is_at_eof(toks, s) THEN [s |-> s, depth |-> d, ret |-> TRUE]
    ELSE CASE current_token_kind(toks, s) \in {"LeftParenthesis", "LeftBrace"} ->
                [s |-> advance(toks, s), depth |-> d + 1, ret |-> FALSE]
           [] current_token_kind(toks, s) \in {"RightParenthesis", "RightBrace"} ->
                IF d = 0 THEN [s |-> s, depth |-> d, ret |-> TRUE]
                ELSE [s |-> advance(toks, s), depth |-> d - 1, ret |-> FALSE]
           [] current_token_kind(toks, s) = "Semicolon" ->
                [s |-> advance(toks, s), depth |-> d, ret |-> (d = 0)]
           [] OTHER ->
                [s |-> advance(toks, s), depth |-> d, ret |-> FALSE]

sync_tokens_iter(toks, s, d) ==
    IF is_at_eof(toks, s) THEN [s |-> s, depth |-> d, ret |-> TRUE]
    ELSE CASE current_token_kind(toks, s) \in {"LeftParenthesis", "LeftBrace"} ->
                [s |-> advance(toks, s), depth |-> d + 1, ret |-> FALSE]
           [] current_token_kind(toks, s) \in {"RightParenthesis", "RightBrace"} ->
                IF d = 0 THEN [s |-> advance(toks, s), depth |-> d, ret |-> TRUE]
                ELSE [s |-> advance(toks, s), depth |-> d - 1, ret |-> FALSE]
           [] current_token_kind(toks, s) = "Semicolon" ->
                [s |-> advance(toks, s), depth |-> d, ret |-> (d = 0)]
           [] OTHER ->
                [s |-> advance(toks, s), depth |-> d, ret |-> FALSE]

\* parse_program returning Ok whatever the collector holds
parse_program_result_always_ok(errs, stmts) ==
    [result |-> [tag |-> "Ok", program |-> [body |-> stmts]], errors |-> errs]

\* the tail of parse_program: Err(mem::take(&mut self.errors)) or Ok(finish(body))
parse_program_result(errs, stmts) ==
    IF has_errors(errs)
    THEN [result |-> [tag |-> "Err", errors |-> errs], errors |-> <<>>]
    ELSE [result |-> [tag |-> "Ok", program |-> [body |-> stmts]], errors |-> errs]

\* body.push(node.unwrap())
push(vec, node) == Append(vec, node)

(***************************************************************************)
(* The type resolver (src/types.rs, src/types/annotated_type.rs).          *)
(* A primitive name is inspected character by character; Chars gives the   *)
(* characters of the names that occur in the inputs.                       *)
(***************************************************************************)
Chars(name) ==
    CASE name = "i32" -> <<"i", "3", "2">>
      [] name = "i0" -> <<"i", "0">>
      [] name = "u8" -> <<"u", "8">>
      [] name = "f8" -> <<"f", "8">>
      [] name = "f64" -> <<"f", "6", "4">>
      [] name = "bool" -> <<"b", "o", "o", "l">>
      [] name = "void" -> <<"v", "o", "i", "d">>
      [] name = "foo" -> <<"f", "o", "o">>
      [] OTHER -> <<name>>

Digits == {"0", "1", "2", "3", "4", "5", "6", "7", "8", "9"}

DigitValue(c) ==
    CASE c = "0" -> 0 [] c = "1" -> 1 [] c = "2" -> 2 [] c = "3" -> 3
      [] c = "4" -> 4 [] c = "5" -> 5 [] c = "6" -> 6 [] c = "7" -> 7
      [] c = "8" -> 8 [] c = "9" -> 9

RECURSIVE DecimalValue(_, _)
DecimalValue(cs, acc) ==
    IF cs = <<>> THEN acc ELSE DecimalValue(Tail(cs), acc * 10 + DigitValue(Head(cs)))

\* str::parse::<u16>() of a run of identifier characters: Ok(n) for a
\* non-empty run of decimal digits whose value fits 16 bits, Err otherwise
parse_u16(cs) ==
    IF /\ cs # <<>>
       /\ \A i \in 1..Len(cs) : cs[i] \in Digits
       /\ DecimalValue(cs, 0) <= 65535
    THEN [some |-> TRUE, val |-> DecimalValue(cs, 0)]
    ELSE [some |-> FALSE, val |-> 0]

starts_with(name, c) == Chars(name) # <<>> /\ Head(Chars(name)) = c

\* t.starts_with(c) && t[1..].parse::<u16>().map(|n| n >= 1).unwrap_or(false)
is_prefixed_width(t, c) ==
    /\ t.type = "Primitive"
    /\ starts_with(t.name, c)
    /\ parse_u16(Tail(Chars(t.name))).some
    /\ parse_u16(Tail(Chars(t.name))).val >= 1

is_int(t) == is_prefixed_width(t, "i")
is_unsigned(t) == is_prefixed_width(t, "u")
is_float(t) == is_prefixed_width(t, "f")

\* AnnotatedType::is_bool is called by the resolver and is not among the
\* methods shown: the primitive named `bool`
is_bool(t) == t.type = "Primitive" /\ t.name = "bool"

None16 == [some |-> FALSE, val |-> 0]

get_prefixed_bitwidth(t, c) ==
    IF t.type # "Primitive" \/ ~starts_with(t.name, c) THEN None16
    ELSE IF ~parse_u16(Tail(Chars(t.name))).some THEN None16
    ELSE IF parse_u16(Tail(Chars(t.name))).val = 0 THEN None16
    ELSE parse_u16(Tail(Chars(t.name)))

get_int_bitwidth(t) == get_prefixed_bitwidth(t, "i")
get_unsigned_bitwidth(t) == get_prefixed_bitwidth(t, "u")

get_float_bitwidth(t) ==
    IF t.type # "Primitive" \/ ~starts_with(t.name, "f") THEN None16
    ELSE IF ~parse_u16(Tail(Chars(t.name))).some THEN None16
    ELSE IF parse_u16(Tail(Chars(t.name))).val \in {16, 32, 64, 128}
         THEN parse_u16(Tail(Chars(t.name)))
         ELSE None16

\* the outcome of a resolver call: the ValueType, or a panic (unreachable!()
\* or unwrap() of None)
Resolved(v) == [panic |-> FALSE, val |-> v]
ResolverPanic == [panic |-> TRUE, val |-> [type |-> "Never"]]

RECURSIVE from_annotated_type(_)
from_annotated_type(t) ==
    IF t.type = "Pointer"
    THEN IF from_annotated_type(t.inner).panic THEN ResolverPanic
         ELSE Resolved([type |-> "Pointer", inner |-> from_annotated_type(t.inner).val])
    ELSE IF is_int(t)
         THEN IF get_int_bitwidth(t).some
              THEN Resolved([type |-> "Integer", bits |-> get_int_bitwidth(t).val,
                             unsigned |-> FALSE])
              ELSE ResolverPanic
    ELSE IF is_unsigned(t)
         THEN IF get_unsigned_bitwidth(t).some
              THEN Resolved([type |-> "Integer", bits |-> get_unsigned_bitwidth(t).val,
                             unsigned |-> TRUE])
              ELSE ResolverPanic
    ELSE IF is_float(t)
         THEN IF get_float_bitwidth(t).some
              THEN Resolved([type |-> "Float", width |-> get_float_bitwidth(t).val])
              ELSE ResolverPanic
    ELSE IF is_bool(t) THEN Resolved([type |-> "Bool"])
    ELSE ResolverPanic

from_return_type(rt) ==
    IF rt.type = "Void" THEN Resolved([type |-> "Void"])
    ELSE from_annotated_type(rt.inner)

(***************************************************************************)
(* The symbol table (src/sema/symbol_type_table.rs).  A scope is its       *)
(* HashMap, a function from the bound names to SymbolType records, and     *)
(* its symbol_count; the table is the vector of scopes and scope_depth.    *)
(***************************************************************************)
SymbolType(value_type, span) == [value_type |-> value_type, span |-> span]

EmptyMap == [n \in {} |-> 0]

SymbolTypeScope_new == [symbols |-> EmptyMap, symbol_count |-> 0]

\* HashMap::insert: the map afterwards (the old value, if any, is replaced)
insert(map, key, value) ==
    [k \in DOMAIN map \cup {key} |-> IF k = key THEN value ELSE map[k]]

VariableRedeclarationError(span, name, original_span) ==
    [type |-> "VariableRedeclaration", span |-> span, variable_name |-> name,
     original_span |-> original_span]

FunctionRedeclarationError(span, name, original_span) ==
    [type |-> "FunctionRedeclaration", span |-> span, fn_name |-> name,
     original_span |-> original_span]

\* the outcome of a declaration: the scope afterwards and Ok(()) or Err(err)
DeclOk(scope) == [scope |-> scope, ok |-> TRUE, err |-> [type |-> "None"]]
DeclErr(scope, err) == [scope |-> scope, ok |-> FALSE, err |-> err]

scope_declare_function_type(scope, identifier, params, return_type, span) ==
    IF identifier \in DOMAIN scope.symbols
    THEN DeclErr([scope EXCEPT !.symbols =
                     insert(@, identifier,
                            SymbolType([type |-> "Function", params |-> params,
                                        return_type |-> return_type], span))],
                 FunctionRedeclarationError(span, identifier,
                                            scope.symbols[identifier].span))
    ELSE DeclOk([symbols |-> insert(scope.symbols, identifier,
                                    SymbolType([type |-> "Function", params |-> params,
                                                return_type |-> return_type], span)),
                 symbol_count |-> scope.symbol_count + 1])

\* declare_ident_type citing the rejected declaration itself as the original
scope_declare_ident_type_cites_itself(scope, identifier, value_type, span) ==
    IF identifier \in DOMAIN scope.symbols
    THEN DeclErr([scope EXCEPT !.symbols =
                     insert(@, identifier, SymbolType(value_type, span))],
                 VariableRedeclarationError(span, identifier, span))
    ELSE DeclOk([symbols |-> insert(scope.symbols, identifier,
                                    SymbolType(value_type, span)),
                 symbol_count |-> scope.symbol_count + 1])

scope_declare_ident_type(scope, identifier, value_type, span) ==
    IF identifier \in DOMAIN scope.symbols
    THEN DeclErr([scope EXCEPT !.symbols =
                     insert(@, identifier, SymbolType(value_type, span))],
                 VariableRedeclarationError(span, identifier,
                                            scope.symbols[identifier].span))
    ELSE DeclOk([symbols |-> insert(scope.symbols, identifier,
                                    SymbolType(value_type, span)),
                 symbol_count |-> scope.symbol_count + 1])

get_ident_type(scope, identifier) ==
    IF identifier \in DOMAIN scope.symbols
    THEN [some |-> TRUE, val |-> scope.symbols[identifier]]
    ELSE [some |-> FALSE, val |-> [type |-> "None"]]

\* ZastSymbolTypeTable: table = [scopes, scope_depth]
ZastSymbolTypeTable_new == [scopes |-> <<SymbolTypeScope_new>>, scope_depth |-> 0]

current_scope(table) == table.scopes[table.scope_depth + 1]

\* the table after a declaration in the current scope left it as `scope`
with_current_scope(table, scope) ==
    [table EXCEPT !.scopes[table.scope_depth + 1] = scope]

enter_scope(table) ==
    [scopes |-> Append(table.scopes, SymbolTypeScope_new),
     scope_depth |-> table.scope_depth + 1]

\* exit_scope lowering scope_depth without popping the scope
exit_scope_keeps_scope(table) ==
    [scopes |-> table.scopes, scope_depth |-> table.scope_depth - 1]

exit_scope(table) ==
    [scopes |-> SubSeq(table.scopes, 1, Len(table.scopes) - 1),
     scope_depth |-> table.scope_depth - 1]

RECURSIVE resolve_from(_, _, _)
resolve_from(table, identifier, i) ==
    IF i = 0 THEN [some |-> FALSE, val |-> [type |-> "None"]]
    ELSE IF get_ident_type(table.scopes[i], identifier).some
         THEN get_ident_type(table.scopes[i], identifier)
         ELSE resolve_from(table, identifier, i - 1)

\* resolve_ident_type searching the scopes outermost first
resolve_ident_type_outermost_first(table, identifier) ==
    IF \A k \in 1..Len(table.scopes) : ~get_ident_type(table.scopes[k], identifier).some
    THEN [some |-> FALSE, val |-> [type |-> "None"]]
    ELSE get_ident_type(
             table.scopes[CHOOSE k \in 1..Len(table.scopes) :
                            /\ get_ident_type(table.scopes[k], identifier).some
                            /\ \A j \in 1..(k - 1) :
                                  ~get_ident_type(table.scopes[j], identifier).some],
             identifier)

resolve_ident_type(table, identifier) ==
    resolve_from(table, identifier, Len(table.scopes))

(***************************************************************************)
(* The semantic analyzer (src/sema.rs).  an = [errors, symbol_type_table]  *)
(* are the analyzer's fields (type_map is never written).                  *)
(* analyze_stmt is recursive; its pending calls are kept as a list of      *)
(* tasks, the work still to do in call order:                              *)
(*   StmtTask(stmt)   a call analyze_stmt(stmt)                            *)
(*   ParamTask(param) one pass of the loop declaring the parameters        *)
(*   ExitTask         the exit_scope() after the body                      *)
(* No branch of analyze_stmt returns None (the declare_* results are       *)
(* dropped, the unhandled statements panic), so the `?` after a nested     *)
(* analyze_stmt never returns early.                                       *)
(***************************************************************************)
ZastSemanticAnalyzer_new ==
    [errors |-> <<>>, symbol_type_table |-> ZastSymbolTypeTable_new]

StmtTask(stmt) == [op |-> "stmt", stmt |-> stmt]
ParamTask(param) == [op |-> "param", param |-> param]
ExitTask == [op |-> "exit"]

\* the outcome of a declaration through the table, applied to the analyzer
\* a declaration outcome recorded only while the collector is still empty
declared_first_error_only(an, r) ==
    [errors |-> IF r.ok \/ an.errors # <<>> THEN an.errors
                ELSE add_error(an.errors, r.err),
     symbol_type_table |-> with_current_scope(an.symbol_type_table, r.scope)]

declared(an, r) ==
    [errors |-> IF r.ok THEN an.errors ELSE add_error(an.errors, r.err),
     symbol_type_table |-> with_current_scope(an.symbol_type_table, r.scope)]

declare_ident_type_mapping(an, identifier, value_type, span) ==
    declared(an, scope_declare_ident_type(current_scope(an.symbol_type_table),
                                          identifier, value_type, span))

declare_function_type(an, identifier, params, return_type, span) ==
    declared(an, scope_declare_function_type(current_scope(an.symbol_type_table),
                                             identifier, params, return_type, span))

\* the first loop of the FunctionDeclaration arm: the resolved parameters
resolve_params(parameters) ==
    [i \in 1..Len(parameters) |-> from_annotated_type(parameters[i].annotated_type)]

\* whether resolving the signature of a FunctionDeclaration panics
signature_panics(stmt) ==
    \/ \E i \in 1..Len(stmt.parameters) : resolve_params(stmt.parameters)[i].panic
    \/ from_return_type(stmt.return_type).panic

\* the FunctionDeclaration arm up to its second loop: declare the function
\* in the current scope, then enter_scope
analyze_function_head(an, stmt) ==
    [declare_function_type(an, stmt.name,
         [i \in 1..Len(stmt.parameters) |-> resolve_params(stmt.parameters)[i].val],
         from_return_type(stmt.return_type).val, stmt.span)
     EXCEPT !.symbol_type_table = enter_scope(@)]

\* the FunctionDeclaration arm returning without exit_scope
function_tasks_no_exit(stmt) ==
    [i \in 1..Len(stmt.parameters) |-> ParamTask(stmt.parameters[i])]
        \o <<StmtTask(stmt.body)>>

\* the FunctionDeclaration arm leaving the scope before it analyses the body
function_tasks_exit_first(stmt) ==
    [i \in 1..Len(stmt.parameters) |-> ParamTask(stmt.parameters[i])]
        \o <<ExitTask, StmtTask(stmt.body)>>

\* the calls the FunctionDeclaration arm still makes after enter_scope
function_tasks(stmt) ==
    [i \in 1..Len(stmt.parameters) |-> ParamTask(stmt.parameters[i])]
        \o <<StmtTask(stmt.body), ExitTask>>

\* the calls of the BlockStatement arm
block_tasks(stmt) ==
    [i \in 1..Len(stmt.statements) |-> StmtTask(stmt.statements[i])]

\* the loop of analyze over program.body
program_tasks(program) ==
    [i \in 1..Len(program.body) |-> StmtTask(program.body[i])]

\* the tail of analyze: Err(mem::take(&mut self.errors)) or Ok(())
analyze_result(errs) ==
    IF has_errors(errs)
    THEN [result |-> [tag |-> "Err", errors |-> errs], errors |-> <<>>]
    ELSE [result |-> [tag |-> "Ok"], errors |-> errs]

(***************************************************************************)
(* Inputs.  Token vectors are built from lexeme lists of three families.   *)
(***************************************************************************)
CoreAlphabet == {"1", "+", "*", "(", ")", ";"}

RECURSIVE SeqsUpTo(_, _)
SeqsUpTo(S, n) ==
    IF n = 0 THEN {<<>>}
    ELSE LET prev == SeqsUpTo(S, n - 1)
         IN prev \cup {Append(q, x) : q \in {r \in prev : Len(r) = n - 1}, x \in S}

RECURSIVE Flatten(_)
Flatten(ss) == IF ss = <<>> THEN <<>> ELSE Head(ss) \o Flatten(Tail(ss))

CoreInputs == SeqsUpTo(CoreAlphabet, MaxLen)

\* operand (operator operand)*, at most MaxOps operators
Atoms == {<<"1">>, <<"*", "p">>, <<"&", "p">>, <<"(", "2", "+", "3", ")">>}
BinaryOps == {"+", "-", "*", "/"}
OpAtoms == {<<op>> \o a : op \in BinaryOps, a \in Atoms}
ChainInputs == {a \o Flatten(t) : a \in Atoms, t \in SeqsUpTo(OpAtoms, MaxOps)}

\* programs: at most MaxStmts statement fragments, well-formed and malformed
FnOk == <<"fn", "f", "(", ")", ":", "void", "{", "}">>
FnParams == <<"fn", "g", "(", "a", ":", "*", "i32", ",", ")", ":", "void", "{", "1", ";", "}">>
FnNoRParen == <<"fn", "h", "(", "a", ":", "i32", ":", "void", "{", "}">>
FnPtrReturn == <<"fn", "k", "(", ")", ":", "*", "i32", "{", "}">>
FnBadBody == <<"fn", "m", "(", ")", ":", "void", "{", "1", "+", ";", "2", ";", "}">>
ExprOk == <<"1", "+", "2", ";">>
ExprNoSemi == <<"3">>
LetOk == <<"let", "x", ":", "i32", "=", "1", ";">>
LetNoSemi == <<"const", "y", ":", "u8", "=", "2">>
NestedBad == <<"(", "(", "1", "+", "let", ")", "+", "2", ")", ";">>
Fragments == {FnOk, FnParams, FnNoRParen, FnPtrReturn, FnBadBody, ExprOk,
              ExprNoSemi, LetOk, LetNoSemi, NestedBad}
ProgramInputs == {Flatten(t) : t \in SeqsUpTo(Fragments, MaxStmts)}

\* programs for the analyzer: function declarations that parse
FnRedecl == <<"fn", "f", "(", "a", ":", "i32", ")", ":", "i32", "{", "}">>
FnDupParam == <<"fn", "d", "(", "a", ":", "i32", ",", "a", ":", "u8", ")", ":", "void", "{", "}">>
FnTripleParam == <<"fn", "t", "(", "a", ":", "i32", ",", "a", ":", "u8", ",",
                   "a", ":", "bool", ")", ":", "void", "{", "}">>
FnNameAsParam == <<"fn", "a", "(", "a", ":", "*", "i32", ",", "b", ":", "f64", ")",
                   ":", "void", "{", "}">>
FnNested == <<"fn", "n", "(", "a", ":", "i32", ")", ":", "void", "{",
              "fn", "a", "(", ")", ":", "void", "{", "}",
              "fn", "n", "(", "a", ":", "u8", ")", ":", "void", "{", "}", "}">>
FnBadType == <<"fn", "b", "(", "a", ":", "foo", ")", ":", "void", "{", "}">>
FnBadFloat == <<"fn", "c", "(", ")", ":", "f8", "{", "}">>
SemaFragments == {FnOk, FnRedecl, FnDupParam, FnTripleParam, FnNameAsParam,
                  FnNested, FnBadType, FnBadFloat}
SemaInputs == {Flatten(t) : t \in SeqsUpTo(SemaFragments, MaxStmts)}

\* parameter lists: at most MaxParams parameters, with and without the
\* trailing comma, and a few malformed ones
ParamTexts == {<<"a", ":", "i32">>, <<"b", ":", "*", "u8">>, <<"a", ":", "*", "*", "bool">>}
RECURSIVE JoinWithCommas(_)
JoinWithCommas(ps) ==
    IF Len(ps) = 1 THEN Head(ps) ELSE Head(ps) \o <<",">> \o JoinWithCommas(Tail(ps))
ParamSeqs == SeqsUpTo(ParamTexts, MaxParams) \ {<<>>}
ParamListInputs ==
    {<<"(">> \o JoinWithCommas(ps) \o trail \o <<")">> :
        ps \in ParamSeqs, trail \in {<<>>, <<",">>, <<",", ",">>}}
    \cup {<<"(", ")">>, <<"(", ",", ")">>, <<"(", "a", ":", "i32", ",">>,
          <<"(", "a", ":", ",", ")">>, <<"a", ":", "i32", ")">>}

\* token vectors and expected sets for direct calls of check and expect:
\* the expected sets are the ones the parser passes
HelperAlphabet == {"a", ":", ";", "("}
HelperInputs == SeqsUpTo(HelperAlphabet, MaxHelperLen)
ExpectedSets ==
    {<<ExpectedTok(k)>> : k \in {"Identifier", "Colon", "Semicolon", "Assignment",
                                  "LeftParenthesis", "RightParenthesis",
                                  "LeftBrace", "RightBrace"}}

(***************************************************************************)
(* The state machine.                                                      *)
(***************************************************************************)
VARIABLES
    tokens,             \* ZastParser.tokens
    current_token_ptr,  \* ZastParser.current_token_ptr
    errors,             \* ZastParser.errors
    pc,                 \* "expr": about to call try_parse_expr(Default);
                        \* "loop": at the head of parse_program's loop;
                        \* "sync": inside sync_tokens; "done", "expr_done"
    depth,              \* sync_tokens' local depth
    body,               \* parse_program's local body
    result,             \* what the entry point returned
    recorded,           \* history: every diagnostic passed to add_error
    attempt_start,      \* history: cursor at the start of the last top-level attempt
    sync_start,         \* history: cursor at the last call of sync_tokens
    sync_calls,         \* history: number of calls of sync_tokens
    sema_pc,            \* "idle": analyze not called; "run": inside analyze;
                        \* "done": analyze returned; "panic": it panicked
    analyzer,           \* ZastSemanticAnalyzer: errors, symbol_type_table
    work,               \* the pending calls of analyze, in call order
    sema_result,        \* what analyze returned
    sema_recorded       \* history: every diagnostic the analyzer recorded

sema_vars == <<sema_pc, analyzer, work, sema_result, sema_recorded>>

vars == <<tokens, current_token_ptr, errors, pc, depth, body, result,
          recorded, attempt_start, sync_start, sync_calls,
          sema_pc, analyzer, work, sema_result, sema_recorded>>

NoResult == [tag |-> "None"]

PS == [ptr |-> current_token_ptr, errors |-> errors]

Init ==
    /\ \/ pc = "expr" /\ tokens \in {Lex(l) : l \in CoreInputs \cup ChainInputs}
       \/ pc = "loop" /\ tokens \in {Lex(l) : l \in CoreInputs \cup ProgramInputs
                                                      \cup SemaInputs}
       \/ pc = "params" /\ tokens \in {Lex(l) : l \in ParamListInputs}
       \/ pc = "helper" /\ tokens \in {Lex(l) : l \in HelperInputs}
    /\ current_token_ptr \in IF pc = "helper" THEN 0..(Len(tokens) - 1) ELSE {0}
    /\ errors = <<>>
    /\ depth = 0
    /\ body = <<>>
    /\ result = NoResult
    /\ recorded = <<>>
    /\ attempt_start = 0
    /\ sync_start = 0
    /\ sync_calls = 0
    /\ sema_pc = "idle"
    /\ analyzer = ZastSemanticAnalyzer_new
    /\ work = <<>>
    /\ sema_result = NoResult
    /\ sema_recorded = <<>>

\* a caller invokes the public try_parse_expr at Default precedence
ParseExpr ==
    /\ pc = "expr"
    /\ LET r == try_parse_expr(tokens, PS, Default)
       IN /\ current_token_ptr' = r.s.ptr
          /\ errors' = r.s.errors
          /\ recorded' = r.s.errors
          /\ result' = [tag |-> IF r.ok THEN "Some" ELSE "None", node |-> r.node]
    /\ pc' = "expr_done"
    /\ UNCHANGED <<tokens, depth, body, attempt_start, sync_start, sync_calls>>
    /\ UNCHANGED sema_vars

\* a function declaration's parameter list is parsed
ParseParams ==
    /\ pc = "params"
    /\ LET r == parse_function_parameter(tokens, PS)
       IN /\ current_token_ptr' = r.s.ptr
          /\ errors' = r.s.errors
          /\ recorded' = r.s.errors
          /\ result' = [tag |-> IF r.ok THEN "Some" ELSE "None", node |-> r.node]
    /\ pc' = "params_done"
    /\ UNCHANGED <<tokens, depth, body, attempt_start, sync_start, sync_calls>>
    /\ UNCHANGED sema_vars

\* a parse function calls check(expected)
CallCheck ==
    /\ pc = "helper"
    /\ \E expected \in ExpectedSets :
          LET r == check(tokens, PS, expected)
          IN /\ current_token_ptr' = r.s.ptr
             /\ errors' = r.s.errors
             /\ recorded' = r.s.errors
             /\ result' = [tag |-> "check", ok |-> r.ok, expected |-> expected]
    /\ attempt_start' = current_token_ptr
    /\ pc' = "helper_done"
    /\ UNCHANGED <<tokens, depth, body, sync_start, sync_calls>>
    /\ UNCHANGED sema_vars

\* a parse function calls expect(expected)
CallExpect ==
    /\ pc = "helper"
    /\ \E expected \in ExpectedSets :
          LET r == expect(tokens, PS, expected)
          IN /\ current_token_ptr' = r.s.ptr
             /\ errors' = r.s.errors
             /\ recorded' = r.s.errors
             /\ result' = [tag |-> "expect", ok |-> r.ok, expected |-> expected]
    /\ attempt_start' = current_token_ptr
    /\ pc' = "helper_done"
    /\ UNCHANGED <<tokens, depth, body, sync_start, sync_calls>>
    /\ UNCHANGED sema_vars

\* one pass through the body of parse_program's loop, up to the call of
\* sync_tokens
ParseStmt ==
    /\ pc = "loop"
    /\ ~is_at_eof(tokens, PS)
    /\ LET r == try_parse_stmt(tokens, PS)
       IN /\ current_token_ptr' = r.s.ptr
          /\ errors' = r.s.errors
          /\ recorded' = r.s.errors
          /\ IF r.ok
             THEN /\ body' = push(body, r.node)
                  /\ pc' = "loop"
                  /\ UNCHANGED <<depth, sync_start, sync_calls>>
             ELSE /\ pc' = "sync"
                  /\ depth' = 0
                  /\ sync_start' = r.s.ptr
                  /\ sync_calls' = sync_calls + 1
                  /\ UNCHANGED body
    /\ attempt_start' = current_token_ptr
    /\ UNCHANGED <<tokens, result>>
    /\ UNCHANGED sema_vars

\* one iteration of sync_tokens' loop
SyncTokens ==
    /\ pc = "sync"
    /\ LET r == sync_tokens_iter(tokens, PS, depth)
       IN /\ current_token_ptr' = r.s.ptr
          /\ depth' = r.depth
          /\ pc' = IF r.ret THEN "loop" ELSE "sync"
    /\ UNCHANGED <<tokens, errors, body, result, recorded, attempt_start,
                   sync_start, sync_calls>>
    /\ UNCHANGED sema_vars

\* parse_program leaves its loop and returns
ParseProgramReturn ==
    /\ pc = "loop"
    /\ is_at_eof(tokens, PS)
    /\ LET r == parse_program_result(errors, body)
       IN /\ result' = r.result
          /\ errors' = r.errors
    /\ pc' = "done"
    /\ UNCHANGED <<tokens, current_token_ptr, depth, body, recorded,
                   attempt_start, sync_start, sync_calls>>
    /\ UNCHANGED sema_vars

parser_vars == <<tokens, current_token_ptr, errors, pc, depth, body, result,
                 recorded, attempt_start, sync_start, sync_calls>>

\* main: parse_program returned Ok(ast); a fresh analyzer's analyze(ast) is called
AnalyzeStart ==
    /\ pc = "done"
    /\ result.tag = "Ok"
    /\ sema_pc = "idle"
    /\ sema_pc' = "run"
    /\ work' = program_tasks(result.program)
    /\ UNCHANGED <<analyzer, sema_result, sema_recorded>>
    /\ UNCHANGED parser_vars

\* analyze_stmt on a FunctionDeclaration, up to the loop over the parameters
AnalyzeFunctionDeclaration ==
    /\ sema_pc = "run"
    /\ work # <<>>
    /\ Head(work).op = "stmt"
    /\ Head(work).stmt.node = "FunctionDeclaration"
    /\ IF signature_panics(Head(work).stmt)
       THEN /\ sema_pc' = "panic"
            /\ UNCHANGED <<analyzer, work, sema_recorded>>
       ELSE /\ analyzer' = analyze_function_head(analyzer, Head(work).stmt)
            /\ sema_recorded' = analyze_function_head(analyzer, Head(work).stmt).errors
            /\ work' = function_tasks(Head(work).stmt) \o Tail(work)
            /\ UNCHANGED sema_pc
    /\ UNCHANGED sema_result
    /\ UNCHANGED parser_vars

\* one pass of the loop declaring the parameters in the function's scope
DeclareParameter ==
    /\ sema_pc = "run"
    /\ work # <<>>
    /\ Head(work).op = "param"
    /\ IF from_annotated_type(Head(work).param.annotated_type).panic
       THEN /\ sema_pc' = "panic"
            /\ UNCHANGED <<analyzer, work, sema_recorded>>
       ELSE /\ analyzer' = declare_ident_type_mapping(analyzer, Head(work).param.name,
                                from_annotated_type(Head(work).param.annotated_type).val,
                                Head(work).param.span)
            /\ sema_recorded' = analyzer'.errors
            /\ work' = Tail(work)
            /\ UNCHANGED sema_pc
    /\ UNCHANGED sema_result
    /\ UNCHANGED parser_vars

\* analyze_stmt on a BlockStatement: its statements are analysed in turn
AnalyzeBlockStatement ==
    /\ sema_pc = "run"
    /\ work # <<>>
    /\ Head(work).op = "stmt"
    /\ Head(work).stmt.node = "BlockStatement"
    /\ work' = block_tasks(Head(work).stmt) \o Tail(work)
    /\ UNCHANGED <<sema_pc, analyzer, sema_result, sema_recorded>>
    /\ UNCHANGED parser_vars

\* analyze_stmt on any other statement: todo!()
AnalyzeUnimplemented ==
    /\ sema_pc = "run"
    /\ work # <<>>
    /\ Head(work).op = "stmt"
    /\ Head(work).stmt.node \notin {"FunctionDeclaration", "BlockStatement"}
    /\ sema_pc' = "panic"
    /\ UNCHANGED <<analyzer, work, sema_result, sema_recorded>>
    /\ UNCHANGED parser_vars

\* the exit_scope() that ends the FunctionDeclaration arm
ExitScope ==
    /\ sema_pc = "run"
    /\ work # <<>>
    /\ Head(work).op = "exit"
    /\ analyzer' = [analyzer EXCEPT !.symbol_type_table = exit_scope(@)]
    /\ work' = Tail(work)
    /\ UNCHANGED <<sema_pc, sema_result, sema_recorded>>
    /\ UNCHANGED parser_vars

\* analyze leaves its loop and returns
AnalyzeReturn ==
    /\ sema_pc = "run"
    /\ work = <<>>
    /\ sema_result' = analyze_result(analyzer.errors).result
    /\ analyzer' = [analyzer EXCEPT !.errors = analyze_result(analyzer.errors).errors]
    /\ sema_pc' = "done"
    /\ UNCHANGED <<work, sema_recorded>>
    /\ UNCHANGED parser_vars

Next ==
    \/ ParseExpr
    \/ ParseParams
    \/ CallCheck
    \/ CallExpect
    \/ ParseStmt
    \/ SyncTokens
    \/ ParseProgramReturn
    \/ AnalyzeStart
    \/ AnalyzeFunctionDeclaration
    \/ DeclareParameter
    \/ AnalyzeBlockStatement
    \/ AnalyzeUnimplemented
    \/ ExitScope
    \/ AnalyzeReturn

Spec == Init /\ [][Next]_vars

\* the pass is a single synchronous call: it keeps running until it returns
FairSpec == Spec /\ WF_vars(Next)

TypeOK ==
    /\ pc \in {"expr", "params", "helper", "loop", "sync", "done", "expr_done",
               "params_done", "helper_done"}
    /\ sema_pc \in {"idle", "run", "done", "panic"}
    /\ current_token_ptr \in 0..(Len(tokens) - 1)
    /\ depth \in Nat

(***************************************************************************)
(* Helpers of the properties.                                              *)
(***************************************************************************)
S0 == [ptr |-> 0, errors |-> <<>>]

\* the structure of an expression tree: a leaf is the column of its token
\* (shifted left by off), spans of inner nodes are dropped
Bin(l, op, r) == [left |-> l, operator |-> op, right |-> r]
Un(variant, x) == [unary |-> variant, inner |-> x]

RECURSIVE Shape(_, _)
Shape(e, off) ==
    CASE e.node = "BinaryExpression" -> Bin(Shape(e.left, off), e.operator, Shape(e.right, off))
      [] e.node \in {"Dereference", "Address"} -> Un(e.node, Shape(e.inner, off))
      [] OTHER -> [leaf |-> e.node, value |-> e.value, col |-> e.span.col_start - off]

Leaf(lexeme, col) ==
    [leaf |-> IF KindOf(lexeme) = "Integer" THEN "IntegerLiteral" ELSE "Identifier",
     value |-> lexeme, col |-> col]

AdditiveOps == {"+", "-"}
MultiplicativeOps == {"*", "/"}

\* the kinds of the tokens the parser has consumed so far
ConsumedKinds == {tokens[i].kind : i \in 1..current_token_ptr}

\* some multiplicative node of e has an additive node as a child
RECURSIVE MulOverAdd(_)
MulOverAdd(e) ==
    CASE e.node = "BinaryExpression" ->
            \/ /\ e.operator \in {"Multiply", "Divide"}
               /\ \E c \in {e.left, e.right} :
                     c.node = "BinaryExpression" /\ c.operator \in {"Plus", "Minus"}
            \/ MulOverAdd(e.left)
            \/ MulOverAdd(e.right)
      [] e.node \in {"Dereference", "Address"} -> MulOverAdd(e.inner)
      [] OTHER -> FALSE

\* some unary node of e has a binary expression as its operand
RECURSIVE UnaryOverBinary(_)
UnaryOverBinary(e) ==
    CASE e.node = "BinaryExpression" -> UnaryOverBinary(e.left) \/ UnaryOverBinary(e.right)
      [] e.node \in {"Dereference", "Address"} ->
            e.inner.node = "BinaryExpression" \/ UnaryOverBinary(e.inner)
      [] OTHER -> FALSE

ExprDone == pc = "expr_done"
ExprOkDone == pc = "expr_done" /\ result.tag = "Some"

(***************************************************************************)
(* C1: in `a op1 b op2 c` over leaf operands, an additive op1 followed by  *)
(* a multiplicative op2 parses as a op1 (b op2 c), a multiplicative op1    *)
(* followed by an additive op2 as (a op1 b) op2 c; and in a tree parsed    *)
(* from text without parentheses no multiplicative node has an additive    *)
(* node as a child.                                                        *)
(***************************************************************************)
C1_MulBindsTighter ==
    ExprDone =>
      /\ \A op1 \in AdditiveOps, op2 \in MultiplicativeOps :
            tokens = Lex(<<"1", op1, "1", op2, "1">>) =>
               /\ result.tag = "Some"
               /\ Shape(result.node, 0) =
                     Bin(Leaf("1", 1), KindOf(op1), Bin(Leaf("1", 3), KindOf(op2), Leaf("1", 5)))
      /\ \A op1 \in MultiplicativeOps, op2 \in AdditiveOps :
            tokens = Lex(<<"1", op1, "1", op2, "1">>) =>
               /\ result.tag = "Some"
               /\ Shape(result.node, 0) =
                     Bin(Bin(Leaf("1", 1), KindOf(op1), Leaf("1", 3)), KindOf(op2), Leaf("1", 5))
      /\ (result.tag = "Some" /\ "LeftParenthesis" \notin ConsumedKinds)
            => ~MulOverAdd(result.node)

C1_Witness ==
    /\ ExprOkDone
    /\ tokens = Lex(<<"1", "-", "1", "/", "1">>)
    /\ current_token_ptr = 5

(***************************************************************************)
(* C2: a chain x1 op1 x2 op2 ... xn whose operators are all additive or    *)
(* all multiplicative parses to the left-nested tree.                      *)
(***************************************************************************)
\* reads the operand that starts at token i of a chain: [shape, next]
ReadAtom(toks, i) ==
    CASE toks[i].kind \in {"Integer", "Identifier"} ->
            [shape |-> Leaf(toks[i].literal.value, i), next |-> i + 1]
      [] toks[i].kind = "Multiply" ->
            [shape |-> Un("Dereference", Leaf(toks[i + 1].literal.value, i + 1)), next |-> i + 2]
      [] toks[i].kind = "Ampersand" ->
            [shape |-> Un("Address", Leaf(toks[i + 1].literal.value, i + 1)), next |-> i + 2]
      [] toks[i].kind = "LeftParenthesis" ->
            [shape |-> Bin(Leaf(toks[i + 1].literal.value, i + 1), toks[i + 2].kind,
                            Leaf(toks[i + 3].literal.value, i + 3)),
             next |-> i + 5]

\* the operators of the chain whose next operator stands at token i
RECURSIVE ChainOps(_, _)
ChainOps(toks, i) ==
    IF toks[i].kind = "Eof" THEN {}
    ELSE {toks[i].kind} \cup ChainOps(toks, ReadAtom(toks, i + 1).next)

\* the left-nested tree of the chain, given the tree left built so far
RECURSIVE LeftNested(_, _, _)
LeftNested(toks, i, left) ==
    IF toks[i].kind = "Eof" THEN left
    ELSE LET a == ReadAtom(toks, i + 1)
         IN LeftNested(toks, a.next, Bin(left, toks[i].kind, a.shape))

LeafKinds == {"Integer", "Identifier"}
OperatorKinds == {"Plus", "Minus", "Multiply", "Divide"}

\* an operand of one of the forms ReadAtom reads starts at token i
AtomAt(toks, i) ==
    /\ i <= Len(toks)
    /\ \/ toks[i].kind \in LeafKinds
       \/ /\ toks[i].kind \in {"Multiply", "Ampersand"}
          /\ i + 1 <= Len(toks)
          /\ toks[i + 1].kind \in LeafKinds
       \/ /\ toks[i].kind = "LeftParenthesis"
          /\ i + 4 <= Len(toks)
          /\ toks[i + 1].kind \in LeafKinds
          /\ toks[i + 2].kind \in OperatorKinds
          /\ toks[i + 3].kind \in LeafKinds
          /\ toks[i + 4].kind = "RightParenthesis"

\* from token i on, toks is (operator operand)* Eof
RECURSIVE ChainTail(_, _)
ChainTail(toks, i) ==
    \/ toks[i].kind = "Eof"
    \/ /\ toks[i].kind \in OperatorKinds
       /\ AtomAt(toks, i + 1)
       /\ ChainTail(toks, ReadAtom(toks, i + 1).next)

IsChain == AtomAt(tokens, 1) /\ ChainTail(tokens, ReadAtom(tokens, 1).next)

SameLevelChain ==
    /\ IsChain
    /\ LET ops == ChainOps(tokens, ReadAtom(tokens, 1).next)
       IN ops \subseteq {"Plus", "Minus"} \/ ops \subseteq {"Multiply", "Divide"}

C2_LeftAssociative ==
    (ExprDone /\ SameLevelChain) =>
       /\ result.tag = "Some"
       /\ Shape(result.node, 0) =
             LET a == ReadAtom(tokens, 1) IN LeftNested(tokens, a.next, a.shape)

C2_Witness ==
    /\ ExprOkDone
    /\ tokens = Lex(<<"1", "-", "1", "-", "1">>)
    /\ Shape(result.node, 0) =
          Bin(Bin(Leaf("1", 1), "Minus", Leaf("1", 3)), "Minus", Leaf("1", 5))

(***************************************************************************)
(* C3: a parenthesized expression (e) parses to exactly the tree of e, no  *)
(* node is added for the grouping, and both parentheses are consumed; so   *)
(* (2+3) op 1 is Binary(Binary(2,+,3), op, 1).                             *)
(***************************************************************************)
\* tokens 2..n-2 of toks moved one column to the left, then Eof: the text
\* between an opening first token and a closing last token
Inner(toks) ==
    [i \in 1..(Len(toks) - 2) |->
        IF i < Len(toks) - 2
        THEN [toks[i + 1] EXCEPT !.span = Span(i, i)]
        ELSE [toks[Len(toks)] EXCEPT !.span = Span(i, i)]]

Wrapped ==
    /\ Len(tokens) >= 4
    /\ tokens[1].kind = "LeftParenthesis"
    /\ tokens[Len(tokens) - 1].kind = "RightParenthesis"
    /\ LET ri == try_parse_expr(Inner(tokens), S0, Default)
       IN ri.ok /\ ri.s.ptr = Len(tokens) - 3

C3_GroupingAddsNoNode ==
    ExprDone =>
      /\ Wrapped =>
            /\ result.tag = "Some"
            /\ Shape(result.node, 1) =
                  Shape(try_parse_expr(Inner(tokens), S0, Default).node, 0)
            /\ current_token_ptr = Len(tokens) - 1
      /\ \A op \in BinaryOps :
            /\ tokens = Lex(<<"(", "2", "+", "3", ")", op, "1">>) =>
                  /\ result.tag = "Some"
                  /\ Shape(result.node, 0) =
                        Bin(Bin(Leaf("2", 2), "Plus", Leaf("3", 4)), KindOf(op), Leaf("1", 7))
            /\ tokens = Lex(<<"1", op, "(", "2", "+", "3", ")">>) =>
                  /\ result.tag = "Some"
                  /\ Shape(result.node, 0) =
                        Bin(Leaf("1", 1), KindOf(op), Bin(Leaf("2", 4), "Plus", Leaf("3", 6)))
                  /\ current_token_ptr = 7

C3_Witness ==
    /\ ExprOkDone
    /\ tokens = Lex(<<"(", "2", "+", "3", ")", "*", "1">>)
    /\ result.node.left.node = "BinaryExpression"
    /\ current_token_ptr = 7

(***************************************************************************)
(* C4: the span of a binary expression with a parenthesized operand        *)
(* covers the parentheses: for (2+3)*1 it starts at the `(`, for 1*(2+3)   *)
(* it ends at the `)`.                                                     *)
(***************************************************************************)
C4_SpanCoversParentheses ==
    ExprOkDone =>
      /\ tokens = Lex(<<"(", "2", "+", "3", ")", "*", "1">>) =>
            result.node.span.col_start = 1 /\ result.node.span.col_end = 7
      /\ tokens = Lex(<<"1", "*", "(", "2", "+", "3", ")">>) =>
            result.node.span.col_start = 1 /\ result.node.span.col_end = 7

(***************************************************************************)
(* C5: a prefix * or & wraps only the primary that follows it: u p op 1    *)
(* is Binary(Unary(p), op, 1) for every binary op, and in a tree parsed    *)
(* from text without parentheses no unary node has a binary expression as  *)
(* its operand.                                                            *)
(***************************************************************************)
C5_UnaryBindsTightest ==
    ExprDone =>
      /\ \A u \in {"*", "&"}, op \in BinaryOps :
            tokens = Lex(<<u, "p", op, "1">>) =>
               /\ result.tag = "Some"
               /\ Shape(result.node, 0) =
                     Bin(Un(IF u = "*" THEN "Dereference" ELSE "Address", Leaf("p", 2)),
                         KindOf(op), Leaf("1", 4))
      /\ (result.tag = "Some" /\ "LeftParenthesis" \notin ConsumedKinds)
            => ~UnaryOverBinary(result.node)

C5_Witness ==
    /\ ExprOkDone
    /\ tokens = Lex(<<"*", "p", "*", "1">>)
    /\ result.node.node = "BinaryExpression"
    /\ result.node.left.node = "Dereference"

(***************************************************************************)
(* Helpers of the properties about parse_program and recovery.             *)
(***************************************************************************)
ProgramDone == pc = "done"

AtEof == tokens[current_token_ptr + 1].kind = "Eof"

\* errs holds an ExpectedToken whose expected set names the token kind
HasExpected(errs, kind) ==
    \E i \in 1..Len(errs) :
        /\ errs[i].type = "ExpectedToken"
        /\ \E j \in 1..Len(errs[i].expected_tokens) :
              errs[i].expected_tokens[j] = ExpectedTok(kind)

\* the `(`/`{` among tokens from+1..to (1-based) that no later `)`/`}` of
\* that range closes
RECURSIVE Unclosed(_, _, _, _)
Unclosed(toks, from, to, open) ==
    IF from >= to THEN open
    ELSE CASE toks[from + 1].kind \in {"LeftParenthesis", "LeftBrace"} ->
                Unclosed(toks, from + 1, to, open + 1)
           [] toks[from + 1].kind \in {"RightParenthesis", "RightBrace"} ->
                Unclosed(toks, from + 1, to, IF open > 0 THEN open - 1 ELSE 0)
           [] OTHER -> Unclosed(toks, from + 1, to, open)

WellFormedFragments == {FnOk, FnParams, ExprOk, LetOk}

(***************************************************************************)
(* C6: parse_program returns Err exactly when a diagnostic was recorded    *)
(* during the pass; the returned collector then holds every recorded       *)
(* diagnostic in recording order; on Ok the program holds the parsed       *)
(* top-level statements in source order.                                   *)
(***************************************************************************)
C6_FailsIffDiagnosticRecorded ==
    ProgramDone =>
      /\ result.tag \in {"Ok", "Err"}
      /\ (result.tag = "Err") <=> (recorded # <<>>)
      /\ result.tag = "Err" => result.errors = recorded
      /\ result.tag = "Ok" =>
            /\ \A i \in 1..Len(result.program.body) :
                  \E start \in 0..(Len(tokens) - 1) :
                      LET r == try_parse_stmt(tokens, [ptr |-> start, errors |-> <<>>])
                      IN r.ok /\ r.node = result.program.body[i]
            /\ \A i \in 1..(Len(result.program.body) - 1) :
                  result.program.body[i].span.col_end
                      < result.program.body[i + 1].span.col_start

C6_Witness ==
    /\ ProgramDone
    /\ result.tag = "Err"
    /\ Len(result.errors) >= 2
    /\ result.errors = recorded

C6_WitnessOk ==
    /\ ProgramDone
    /\ result.tag = "Ok"
    /\ Len(result.program.body) >= 2

(***************************************************************************)
(* C7: whenever a top-level statement attempt fails, a diagnostic has been *)
(* recorded by then, so sync_tokens is never called in a pass that         *)
(* returns Ok.                                                             *)
(***************************************************************************)
C7_AbandonedStatementIsDiagnosed ==
    /\ pc = "sync" => recorded # <<>>
    /\ (ProgramDone /\ result.tag = "Ok") => sync_calls = 0

(***************************************************************************)
(* C8: a function declaration whose parameter list lacks its `)`,          *)
(* followed (directly or after well-formed statements) by a statement      *)
(* that lacks its `;`: the returned collector holds the ExpectedToken for  *)
(* `)` and the ExpectedToken for `;`.                                      *)
(***************************************************************************)
C8_BothDiagnosticsReported ==
    ProgramDone =>
      \A mid \in {<<>>} \cup WellFormedFragments, last \in {ExprNoSemi, LetNoSemi} :
          tokens = Lex(FnNoRParen \o mid \o last) =>
             /\ result.tag = "Err"
             /\ HasExpected(result.errors, "RightParenthesis")
             /\ HasExpected(result.errors, "Semicolon")

(***************************************************************************)
(* C9: sync_tokens never stops at a `)`/`}` that closes a parenthesis or   *)
(* brace the failed statement itself opened.                               *)
(***************************************************************************)
C9_RecoverySkipsInnerClosers ==
    (/\ pc = "sync"
     /\ depth = 0
     /\ tokens[current_token_ptr + 1].kind \in {"RightParenthesis", "RightBrace"})
       => Unclosed(tokens, attempt_start, sync_start, 0) = 0

(***************************************************************************)
(* C10: every iteration of sync_tokens' loop consumes a token or returns;  *)
(* every iteration of parse_program's loop ends with the cursor strictly   *)
(* beyond where the iteration began, or on Eof; and parse_program (like    *)
(* try_parse_expr) returns.                                                *)
(***************************************************************************)
C10_ProgressAndTermination ==
    /\ [][(pc = "sync" /\ pc' = "sync") => current_token_ptr' > current_token_ptr]_vars
    /\ [][(pc \in {"loop", "sync"} /\ pc' = "loop")
            => (current_token_ptr' > attempt_start' \/ AtEof')]_vars
    /\ <>(pc \in {"done", "expr_done", "params_done", "helper_done"})

C10_Witness ==
    /\ ProgramDone
    /\ sync_calls >= 2
    /\ current_token_ptr = Len(tokens) - 1

(***************************************************************************)
(* Helpers of the properties about the analyzer.                           *)
(***************************************************************************)
SemaDone == sema_pc = "done"

Table == analyzer.symbol_type_table

\* the analyzer is about to declare a function or a parameter
IsDeclaration ==
    /\ sema_pc = "run"
    /\ work # <<>>
    /\ \/ Head(work).op = "param"
       \/ Head(work).op = "stmt" /\ Head(work).stmt.node = "FunctionDeclaration"

DeclaredName ==
    IF Head(work).op = "param" THEN Head(work).param.name ELSE Head(work).stmt.name

\* the declarations the program text makes, scope by scope, read off the
\* tree: a declaration is its kind, name and span
Decl(kind, name, span) == [kind |-> kind, name |-> name, span |-> span]

FunctionsOf(stmts) ==
    SelectSeq(stmts, LAMBDA st : st.node = "FunctionDeclaration")

FunctionDecls(stmts) ==
    [i \in 1..Len(FunctionsOf(stmts)) |->
        Decl("Function", FunctionsOf(stmts)[i].name, FunctionsOf(stmts)[i].span)]

ParamDecls(f) ==
    [i \in 1..Len(f.parameters) |->
        Decl("Variable", f.parameters[i].name, f.parameters[i].span)]

\* the declarations made in function f's own scope: its parameters, then
\* the functions declared directly in its body
ScopeDecls(f) == ParamDecls(f) \o FunctionDecls(f.body.statements)

\* every function declaration of a statement list, at any depth
RECURSIVE AllFunctions(_)
AllFunctions(stmts) ==
    {stmts[i] : i \in {j \in 1..Len(stmts) : stmts[j].node = "FunctionDeclaration"}}
    \cup UNION {AllFunctions(stmts[i].body.statements) :
                  i \in {j \in 1..Len(stmts) : stmts[j].node = "FunctionDeclaration"}}

\* the declaration lists of all scopes of a program
ScopeLists(program) ==
    {FunctionDecls(program.body)} \cup {ScopeDecls(f) : f \in AllFunctions(program.body)}

\* the first declaration of decls[j]'s name in decls
FirstIndex(decls, j) ==
    CHOOSE i \in 1..j :
        /\ decls[i].name = decls[j].name
        /\ \A k \in 1..(i - 1) : decls[k].name # decls[j].name

\* the latest declaration of decls[j]'s name before j (0 if none)
PreviousIndex(decls, j) ==
    IF \E i \in 1..(j - 1) : decls[i].name = decls[j].name
    THEN CHOOSE i \in 1..(j - 1) :
            /\ decls[i].name = decls[j].name
            /\ \A k \in (i + 1)..(j - 1) : decls[k].name # decls[j].name
    ELSE 0

RedeclarationType(kind) ==
    IF kind = "Function" THEN "FunctionRedeclaration" ELSE "VariableRedeclaration"

\* the declarations of a program that repeat a name of their scope, as the
\* type and span of the diagnostic each one calls for
Redeclarations(program) ==
    UNION {{[type |-> RedeclarationType(L[j].kind), span |-> L[j].span] :
               j \in {k \in 1..Len(L) : FirstIndex(L, k) < k}} :
           L \in ScopeLists(program)}

Within(inner, outer) ==
    /\ inner.col_start >= outer.col_start
    /\ inner.col_end <= outer.col_end

\* the recorded diagnostics located inside span sp, in recording order
DiagnosticsWithin(sp) == SelectSeq(sema_recorded, LAMBDA e : Within(e.span, sp))

\* positions i < j of the only two parameters of f that share a name
DuplicatePairs(f) ==
    {p \in (1..Len(f.parameters)) \X (1..Len(f.parameters)) :
        p[1] < p[2] /\ f.parameters[p[1]].name = f.parameters[p[2]].name}

(***************************************************************************)
(* C11: a declaration of a name already bound in the top-of-stack scope    *)
(* is rejected and leaves that scope as it was: the name stays bound to    *)
(* the earlier declaration's symbol.                                       *)
(***************************************************************************)
C11_RedeclarationLeavesScopeUnchanged ==
    [][(/\ IsDeclaration
        /\ sema_pc' = "run"
        /\ DeclaredName \in DOMAIN current_scope(Table).symbols)
          => /\ Len(analyzer'.errors) = Len(analyzer.errors) + 1
             /\ analyzer'.symbol_type_table.scopes[Table.scope_depth + 1]
                   = current_scope(Table)]_vars

(***************************************************************************)
(* C12: every redeclaration diagnostic carries the span of the rejected    *)
(* declaration and, as original_span, the span of the first declaration    *)
(* of that name in the same scope.                                         *)
(***************************************************************************)
C12_ErrorCitesFirstDeclaration ==
    (sema_pc \in {"run", "done"}) =>
        \A n \in 1..Len(sema_recorded) :
            \E L \in ScopeLists(result.program) :
                \E j \in 1..Len(L) :
                    /\ L[j].span = sema_recorded[n].span
                    /\ FirstIndex(L, j) < j
                    /\ sema_recorded[n].original_span = L[FirstIndex(L, j)].span

\* what the code does: the citation is of the latest earlier declaration
C12_ErrorCitesPreviousDeclaration ==
    (sema_pc \in {"run", "done"}) =>
        \A n \in 1..Len(sema_recorded) :
            \E L \in ScopeLists(result.program) :
                \E j \in 1..Len(L) :
                    /\ L[j].span = sema_recorded[n].span
                    /\ PreviousIndex(L, j) > 0
                    /\ sema_recorded[n].original_span = L[PreviousIndex(L, j)].span

(***************************************************************************)
(* C13: a top-level function with an empty body in whose signature         *)
(* exactly two parameters share a name gets exactly one                    *)
(* VariableRedeclaration, with the second parameter's span and the first   *)
(* parameter's span as original_span; when the function's own name is not  *)
(* a redeclaration, that is the only diagnostic located in the function.   *)
(***************************************************************************)
C13_DuplicateParameterOneDiagnostic ==
    SemaDone =>
        \A i \in 1..Len(result.program.body) :
            LET f == result.program.body[i] IN
            (/\ f.node = "FunctionDeclaration"
             /\ f.body.statements = <<>>
             /\ Cardinality(DuplicatePairs(f)) = 1)
              => \A p \in DuplicatePairs(f) :
                   /\ SelectSeq(DiagnosticsWithin(f.span),
                                LAMBDA e : e.type = "VariableRedeclaration")
                        = <<VariableRedeclarationError(f.parameters[p[2]].span,
                                                       f.parameters[p[2]].name,
                                                       f.parameters[p[1]].span)>>
                   /\ (\A k \in 1..(i - 1) : result.program.body[k].name # f.name)
                        => Len(DiagnosticsWithin(f.span)) = 1

C13_Witness ==
    /\ SemaDone
    /\ Len(result.program.body) = 2
    /\ \E i \in 1..2 : /\ Cardinality(DuplicatePairs(result.program.body[i])) = 1
                       /\ Len(DiagnosticsWithin(result.program.body[i].span)) = 1
    /\ Len(sema_result.errors) >= 2

\* the primitive names the resolver accepts
AcceptedPrimitive(name) ==
    \/ /\ Head(Chars(name)) \in {"i", "u"}
       /\ Len(Chars(name)) >= 2
       /\ \A i \in 2..Len(Chars(name)) : Chars(name)[i] \in Digits
       /\ DecimalValue(Tail(Chars(name)), 0) >= 1
    \/ name \in {"f16", "f32", "f64", "f128"}
    \/ name = "bool"

RECURSIVE PrimitiveOf(_)
PrimitiveOf(t) == IF t.type = "Pointer" THEN PrimitiveOf(t.inner) ELSE t.name

\* the primitive names of the annotated types of a statement list
RECURSIVE PrimitiveNames(_)
PrimitiveNames(stmts) ==
    UNION {CASE stmts[i].node = "FunctionDeclaration" ->
                 {PrimitiveOf(stmts[i].parameters[k].annotated_type) :
                     k \in 1..Len(stmts[i].parameters)}
                 \cup (IF stmts[i].return_type.type = "Type"
                       THEN {PrimitiveOf(stmts[i].return_type.inner)} ELSE {})
                 \cup PrimitiveNames(stmts[i].body.statements)
             [] stmts[i].node = "VariableDeclaration" ->
                 {PrimitiveOf(stmts[i].annotated_type)}
             [] OTHER -> {} : i \in 1..Len(stmts)}

DistinctParameters(f) == DuplicatePairs(f) = {}

ParameterNames(f) == {f.parameters[i].name : i \in 1..Len(f.parameters)}

\* Function{params, return_type} of a declaration whose types resolve
FunctionTypeOf(f) ==
    [type |-> "Function",
     params |-> [i \in 1..Len(f.parameters) |->
                    from_annotated_type(f.parameters[i].annotated_type).val],
     return_type |-> from_return_type(f.return_type).val]

(***************************************************************************)
(* C14: a program that is one function declaration with pairwise distinct  *)
(* parameter names (and type names the resolver accepts) is analysed to    *)
(* Ok with no diagnostic; the function is bound in the outermost scope to  *)
(* its Function type, and its parameters are declared at depth 1.          *)
(***************************************************************************)
C14_DistinctParametersAnalyseOk ==
    (/\ sema_pc # "idle"
     /\ Len(result.program.body) = 1
     /\ result.program.body[1].node = "FunctionDeclaration"
     /\ DistinctParameters(result.program.body[1])
     /\ \A name \in PrimitiveNames(result.program.body) : AcceptedPrimitive(name))
      => /\ sema_pc # "panic"
         /\ sema_recorded = <<>>
         /\ (sema_pc = "run" /\ work # <<>> /\ Head(work).op = "param"
               /\ \E i \in 1..Len(result.program.body[1].parameters) :
                     result.program.body[1].parameters[i] = Head(work).param)
               => Table.scope_depth = 1
         /\ SemaDone =>
               /\ sema_result.tag = "Ok"
               /\ DOMAIN Table.scopes[1].symbols = {result.program.body[1].name}
               /\ Table.scopes[1].symbols[result.program.body[1].name]
                     = SymbolType(FunctionTypeOf(result.program.body[1]),
                                  result.program.body[1].span)

(***************************************************************************)
(* C15: no declaration escapes its scope: the outermost scope only ever    *)
(* binds top-level function names, every scope on the stack belongs to a   *)
(* function that has not been left yet, a VariableRedeclaration always     *)
(* names two parameters of one function, and when analyze returns the      *)
(* outermost scope binds exactly the top-level function names.             *)
(***************************************************************************)
TopLevelNames ==
    {result.program.body[i].name :
        i \in {j \in 1..Len(result.program.body) :
                  result.program.body[j].node = "FunctionDeclaration"}}

PendingExits == Len(SelectSeq(work, LAMBDA t : t.op = "exit"))

C15_NoDeclarationEscapes ==
    (sema_pc \in {"run", "done"}) =>
      /\ Len(Table.scopes) = 1 + PendingExits
      /\ DOMAIN Table.scopes[1].symbols \subseteq TopLevelNames
      /\ \A n \in 1..Len(sema_recorded) :
            sema_recorded[n].type = "VariableRedeclaration" =>
               \E f \in AllFunctions(result.program.body) :
                  \E p \in DuplicatePairs(f) :
                     /\ f.parameters[p[2]].span = sema_recorded[n].span
                     /\ f.parameters[p[1]].span = sema_recorded[n].original_span
      /\ SemaDone => DOMAIN Table.scopes[1].symbols = TopLevelNames

C15_Witness ==
    /\ SemaDone
    /\ sema_result.tag = "Ok"
    /\ Len(result.program.body) = 2
    /\ result.program.body[1].name # result.program.body[2].name
    /\ ParameterNames(result.program.body[1]) \cap ParameterNames(result.program.body[2]) # {}
    /\ DOMAIN Table.scopes[1].symbols = TopLevelNames

(***************************************************************************)
(* C16: the analyzer goes on after an error: when analyze returns, the     *)
(* recorded diagnostics are exactly one per declaration of the program     *)
(* that repeats a name of its scope, and analyze returns Ok exactly when   *)
(* none was recorded.                                                      *)
(***************************************************************************)
C16_EveryRedeclarationReported ==
    SemaDone =>
      /\ {[type |-> sema_recorded[n].type, span |-> sema_recorded[n].span] :
             n \in 1..Len(sema_recorded)} = Redeclarations(result.program)
      /\ Len(sema_recorded) = Cardinality(Redeclarations(result.program))
      /\ (sema_result.tag = "Ok") <=> (sema_recorded = <<>>)
      /\ sema_result.tag = "Err" => sema_result.errors = sema_recorded

C16_Witness ==
    /\ SemaDone
    /\ sema_result.tag = "Err"
    /\ Len(sema_result.errors) >= 3
    /\ \E n \in 1..Len(sema_recorded) : sema_recorded[n].type = "FunctionRedeclaration"
    /\ \E n \in 1..Len(sema_recorded) : sema_recorded[n].type = "VariableRedeclaration"

(***************************************************************************)
(* C17: every Primitive(name) of a successfully parsed program has a form  *)
(* the resolver accepts (i<N>, u<N> with N >= 1, f16, f32, f64, f128,      *)
(* bool), so resolving a function's signature never panics.                *)
(***************************************************************************)
ResolverPanicked ==
    /\ sema_pc = "panic"
    /\ Head(work).op = "stmt"
    /\ Head(work).stmt.node = "FunctionDeclaration"

C17_ParserHandsAcceptedPrimitives ==
    /\ (pc = "done" /\ result.tag = "Ok") =>
          \A name \in PrimitiveNames(result.program.body) : AcceptedPrimitive(name)
    /\ ~ResolverPanicked

(***************************************************************************)
(* C18: a pointer return type parses: `fn k(): *i32 {}` gives a function   *)
(* declaration with ReturnType::Type(Pointer(Primitive("i32"))), and a     *)
(* function declaration abandoned at its return type has recorded an       *)
(* ExpectedToken.                                                          *)
(***************************************************************************)
C18_PointerReturnTypeParses ==
    (ProgramDone /\ tokens = Lex(FnPtrReturn)) =>
       /\ result.tag = "Ok"
       /\ Len(result.program.body) = 1
       /\ result.program.body[1].node = "FunctionDeclaration"
       /\ result.program.body[1].return_type
             = [type |-> "Type",
                inner |-> [type |-> "Pointer",
                           inner |-> [type |-> "Primitive", name |-> "i32"]]]

(***************************************************************************)
(* C19: for a non-empty parameter sequence p1..pn, `(p1, ..., pn,)` is     *)
(* parsed with no diagnostic to the same n FunctionParameters as           *)
(* `(p1, ..., pn)`, and the cursor is left just past the `)`.              *)
(***************************************************************************)
ParamList(ps, trail) == <<"(">> \o JoinWithCommas(ps) \o trail \o <<")">>

C19_TrailingCommaChangesNothing ==
    pc = "params_done" =>
       \A ps \in ParamSeqs :
          tokens = Lex(ParamList(ps, <<",">>)) =>
             /\ result.tag = "Some"
             /\ recorded = <<>>
             /\ current_token_ptr = Len(tokens) - 1
             /\ tokens[current_token_ptr].kind = "RightParenthesis"
             /\ Len(result.node) = Len(ps)
             /\ \A i \in 1..Len(ps) : result.node[i].name = Head(ps[i])
             /\ parse_function_parameter(Lex(ParamList(ps, <<>>)), S0).ok
             /\ result.node = parse_function_parameter(Lex(ParamList(ps, <<>>)), S0).node

C19_Witness ==
    /\ pc = "params_done"
    /\ result.tag = "Some"
    /\ Len(result.node) = 2
    /\ tokens[Len(tokens) - 2].kind = "Comma"
    /\ current_token_ptr = Len(tokens) - 1

(***************************************************************************)
(* C20: a collector only grows while its phase runs; a phase that returns  *)
(* Err hands over every recorded diagnostic and leaves its own collector   *)
(* empty; a phase that returns Ok recorded nothing and its collector is    *)
(* empty; after the return the collector is not touched again.             *)
(***************************************************************************)
IsPrefix(a, b) == Len(a) <= Len(b) /\ SubSeq(b, 1, Len(a)) = a

C20_CollectorAppendOnlyDrainedOnce ==
    /\ [][pc' # "done" => IsPrefix(errors, errors')]_vars
    /\ [][sema_pc' # "done" => IsPrefix(analyzer.errors, analyzer'.errors)]_vars
    /\ [][pc = "done" => errors' = errors]_vars
    /\ [][sema_pc = "done" => analyzer'.errors = analyzer.errors]_vars
    /\ [](ProgramDone =>
            /\ result.tag = "Err" => (result.errors = recorded /\ errors = <<>>)
            /\ result.tag = "Ok" => (recorded = <<>> /\ errors = <<>>))
    /\ [](SemaDone =>
            /\ sema_result.tag = "Err" =>
                  (sema_result.errors = sema_recorded /\ analyzer.errors = <<>>)
            /\ sema_result.tag = "Ok" =>
                  (sema_recorded = <<>> /\ analyzer.errors = <<>>))

C20_Witness ==
    /\ SemaDone
    /\ sema_result.tag = "Err"
    /\ Len(sema_result.errors) = 2
    /\ analyzer.errors = <<>>
    /\ errors = <<>>

(***************************************************************************)
(* Helpers of the properties about recovery and the cursor.                *)
(***************************************************************************)
StopKinds == {"Semicolon", "RightParenthesis", "RightBrace"}

\* `(`/`{` minus `)`/`}` among tokens from+1..to (1-based)
RECURSIVE NetOpen(_, _, _)
NetOpen(toks, from, to) ==
    IF from >= to THEN 0
    ELSE NetOpen(toks, from + 1, to)
         + (CASE toks[from + 1].kind \in {"LeftParenthesis", "LeftBrace"} -> 1
              [] toks[from + 1].kind \in {"RightParenthesis", "RightBrace"} -> -1
              [] OTHER -> 0)

\* the 0-based indices at or after s where recovery may stop: a `;`, `)` or
\* `}` before which the opens and closes since s cancel
StopIndices(toks, s) ==
    {i \in s..(Len(toks) - 2) :
        toks[i + 1].kind \in StopKinds /\ NetOpen(toks, s, i) = 0}

Minimum(S) == CHOOSE m \in S : \A n \in S : m <= n

\* where sync_tokens called at s is to leave the cursor
SyncTarget(toks, s) ==
    IF StopIndices(toks, s) = {} THEN Len(toks) - 1
    ELSE Minimum(StopIndices(toks, s)) + 1

(***************************************************************************)
(* C21: sync_tokens called with the cursor at s returns with the cursor    *)
(* just past the first `;`, `)` or `}` at or after s before which the      *)
(* opens and closes since s cancel (so a `;` met at positive depth is      *)
(* passed), or on Eof when there is none, and it records no diagnostic.    *)
(***************************************************************************)
C21_SyncStopsAtFirstBalancedStop ==
    /\ [][(pc = "sync" /\ pc' = "loop")
            => current_token_ptr' = SyncTarget(tokens, sync_start)]_vars
    /\ [][pc = "sync" => (errors' = errors /\ recorded' = recorded)]_vars
    /\ [](pc = "sync" => current_token_ptr <= SyncTarget(tokens, sync_start))

C21_Witness ==
    /\ pc = "loop"
    /\ sync_calls >= 1
    /\ current_token_ptr = SyncTarget(tokens, sync_start)
    /\ \E j \in sync_start..(current_token_ptr - 1) :
          /\ tokens[j + 1].kind = "Semicolon"
          /\ NetOpen(tokens, sync_start, j) > 0

(***************************************************************************)
(* C22: check never moves the cursor; expect moves it forward by exactly   *)
(* one token when the current token's kind is in the expected set and      *)
(* leaves it alone otherwise; on a mismatch exactly one ExpectedToken      *)
(* diagnostic is appended, carrying the current token's span, the          *)
(* expected set and the found kind; on a match nothing is appended.        *)
(***************************************************************************)
HelperMatches ==
    \E k \in 1..Len(result.expected) :
        result.expected[k] = ExpectedTok(tokens[attempt_start + 1].kind)

C22_CheckExpectFrame ==
    (pc = "helper_done") =>
        /\ result.ok = HelperMatches
        /\ result.tag = "check" => current_token_ptr = attempt_start
        /\ result.tag = "expect" =>
              current_token_ptr = IF HelperMatches THEN attempt_start + 1
                                  ELSE attempt_start
        /\ errors = IF HelperMatches THEN <<>>
                    ELSE <<ExpectedTokenError(tokens[attempt_start + 1].span,
                                              result.expected,
                                              tokens[attempt_start + 1].kind)>>

C22_Witness ==
    /\ pc = "helper_done"
    /\ result.tag = "expect"
    /\ result.ok
    /\ attempt_start >= 1
    /\ current_token_ptr = attempt_start + 1

(***************************************************************************)
(* C23: a token kind without a precedence entry has effective precedence   *)
(* 0 and ends the infix loop for every minimum precedence: the loop        *)
(* returns the left operand with the cursor still on that token and the    *)
(* collector untouched, so try_parse_expr at any minimum precedence        *)
(* succeeds without consuming it and without a diagnostic.                 *)
(***************************************************************************)
Unbound(kind) == ~get_precedence(kind).some

PrecedenceLevels == Default..Grouping

StateAt(i) == [ptr |-> i, errors |-> errors]

LastState == [ptr |-> Len(tokens) - 1, errors |-> errors]

C24_CursorMonotoneInBounds ==
    /\ [](current_token_ptr \in 0..(Len(tokens) - 1))
    /\ [][current_token_ptr' >= current_token_ptr]_vars
    /\ [](advance(tokens, LastState) = LastState)

C24_Witness ==
    /\ ProgramDone
    /\ result.tag = "Err"
    /\ sync_calls = 1
    /\ Len(tokens) >= 4
    /\ current_token_ptr = Len(tokens) - 1

(***************************************************************************)
(* Helpers of the properties about scopes.                                 *)
(***************************************************************************)
\* the names bound anywhere in the table, and one that never is
BoundNames(table) ==
    UNION {DOMAIN table.scopes[k].symbols : k \in 1..Len(table.scopes)}

UnboundName == "unbound"

BindingScopes(table, name) ==
    {k \in 1..Len(table.scopes) : name \in DOMAIN table.scopes[k].symbols}

Maximum(S) == CHOOSE m \in S : \A n \in S : m >= n

\* the binding of the innermost scope that binds the name, if any
InnermostBinding(table, name) ==
    IF BindingScopes(table, name) = {}
    THEN [some |-> FALSE, val |-> [type |-> "None"]]
    ELSE [some |-> TRUE,
          val |-> table.scopes[Maximum(BindingScopes(table, name))].symbols[name]]

AtParameter == sema_pc = "run" /\ work # <<>> /\ Head(work).op = "param"

AtFunction ==
    /\ sema_pc = "run"
    /\ work # <<>>
    /\ Head(work).op = "stmt"
    /\ Head(work).stmt.node = "FunctionDeclaration"

AtBlock ==
    /\ sema_pc = "run"
    /\ work # <<>>
    /\ Head(work).op = "stmt"
    /\ Head(work).stmt.node = "BlockStatement"

AtExit == sema_pc = "run" /\ work # <<>> /\ Head(work).op = "exit"

(***************************************************************************)
(* C25: declarations act on the top scope only and lookups prefer the      *)
(* innermost binding: a declaration leaves every outer scope unchanged;    *)
(* declaring in a new scope a name bound further out succeeds without a    *)
(* diagnostic and resolve_ident_type then returns the new binding; after   *)
(* exit_scope it returns again what the outer scopes bind; a name bound    *)
(* in no scope resolves to none.                                           *)
(***************************************************************************)
C25_InnermostBindingWins ==
    /\ [](\A name \in BoundNames(Table) \cup {UnboundName} :
             resolve_ident_type(Table, name) = InnermostBinding(Table, name))
    /\ [](~resolve_ident_type(Table, UnboundName).some)
    /\ [][(AtParameter /\ sema_pc' = "run") =>
            /\ Len(Table'.scopes) = Len(Table.scopes)
            /\ \A k \in 1..(Len(Table.scopes) - 1) : Table'.scopes[k] = Table.scopes[k]
            /\ (/\ Head(work).param.name \notin DOMAIN current_scope(Table).symbols
                /\ BindingScopes(Table, Head(work).param.name) # {})
                 => /\ analyzer'.errors = analyzer.errors
                    /\ resolve_ident_type(Table', Head(work).param.name)
                         = [some |-> TRUE,
                            val |-> SymbolType(
                               from_annotated_type(Head(work).param.annotated_type).val,
                               Head(work).param.span)]]_vars
    /\ [][(AtFunction /\ sema_pc' = "run") =>
            \A k \in 1..(Len(Table.scopes) - 1) : Table'.scopes[k] = Table.scopes[k]]_vars
    /\ [][AtExit =>
            \A name \in BoundNames(Table) :
               resolve_ident_type(Table', name)
                  = resolve_from(Table, name, Len(Table.scopes) - 1)]_vars

C25_Witness ==
    /\ sema_pc = "run"
    /\ Len(Table.scopes) = 2
    /\ \E name \in DOMAIN Table.scopes[1].symbols \cap DOMAIN Table.scopes[2].symbols :
          /\ Table.scopes[1].symbols[name] # Table.scopes[2].symbols[name]
          /\ resolve_ident_type(Table, name).val = Table.scopes[2].symbols[name]

(***************************************************************************)
(* C26: the scope stack is never empty, scope_depth is always its length   *)
(* minus one, exit_scope is never called with only the program scope       *)
(* left, and when analyze returns the stack is back to the program scope.  *)
(***************************************************************************)
C26_ScopeStackBalanced ==
    /\ Len(Table.scopes) >= 1
    /\ Table.scope_depth = Len(Table.scopes) - 1
    /\ AtExit => Len(Table.scopes) >= 2
    /\ SemaDone => (Len(Table.scopes) = 1 /\ Table.scope_depth = 0)

C26_Witness ==
    /\ SemaDone
    /\ Table.scope_depth = 0
    /\ \E i \in 1..Len(result.program.body) :
          /\ result.program.body[i].node = "FunctionDeclaration"
          /\ FunctionsOf(result.program.body[i].body.statements) # <<>>

(***************************************************************************)
(* C27: a block has no scope of its own: analysing a BlockStatement        *)
(* leaves the table alone, so a function declared directly in a function   *)
(* body under the name of one of that function's parameters is reported    *)
(* as a FunctionRedeclaration whose original_span is the parameter's span. *)
(***************************************************************************)
\* the functions declared directly in f's body that take the name of a
\* parameter of f, as <<index among the body's functions, parameter index>>
ParameterCollisions(f) ==
    {c \in (1..Len(FunctionsOf(f.body.statements))) \X (1..Len(f.parameters)) :
        /\ FunctionsOf(f.body.statements)[c[1]].name = f.parameters[c[2]].name
        /\ \A k \in 1..Len(f.parameters) :
              f.parameters[k].name = f.parameters[c[2]].name => k = c[2]
        /\ \A j \in 1..(c[1] - 1) :
              FunctionsOf(f.body.statements)[j].name # f.parameters[c[2]].name}

C27_BlockSharesParameterScope ==
    /\ [][AtBlock => analyzer' = analyzer]_vars
    /\ [](SemaDone =>
            \A f \in AllFunctions(result.program.body) :
               \A c \in ParameterCollisions(f) :
                  \E n \in 1..Len(sema_recorded) :
                     sema_recorded[n] =
                        FunctionRedeclarationError(
                           FunctionsOf(f.body.statements)[c[1]].span,
                           f.parameters[c[2]].name,
                           f.parameters[c[2]].span))

C27_Witness ==
    /\ SemaDone
    /\ \E f \in AllFunctions(result.program.body) :
          \E c \in ParameterCollisions(f) :
             \E n \in 1..Len(sema_recorded) :
                /\ sema_recorded[n].type = "FunctionRedeclaration"
                /\ sema_recorded[n].original_span = f.parameters[c[2]].span

(***************************************************************************)
(* C28: diagnostics are recorded in strict source order over the whole     *)
(* parse: a failed top-level attempt records at most one diagnostic, at    *)
(* the token under the cursor, a successful one records none, and          *)
(* sync_tokens then consumes at least that token unless it is Eof; so of   *)
(* two consecutive diagnostics the later one lies at a strictly greater    *)
(* token index, and at most one diagnostic lies at the Eof token.          *)
(***************************************************************************)
InProgram == pc \in {"loop", "sync", "done"}

\* the 1-based index of the token a diagnostic is located at
TokenIndex(e) == e.span.col_start

DiagnosticsAtEof ==
    {n \in 1..Len(recorded) : tokens[TokenIndex(recorded[n])].kind = "Eof"}

BalancedSource ==
    /\ NetOpen(tokens, 0, Len(tokens)) = 0
    /\ \A i \in 0..Len(tokens) : NetOpen(tokens, 0, i) >= 0

C29_RecoveryResumesAtTopLevel ==
    /\ (pc = "loop" /\ ~AtEof /\ BalancedSource)
          => NetOpen(tokens, 0, current_token_ptr) = 0
    /\ (ProgramDone /\ tokens = Lex(FnBadBody))
          => (Len(recorded) = 1 /\ body = <<>>)

(***************************************************************************)
(* C30: for a parsed program without a VariableDeclaration or Expression   *)
(* statement at top level (and with type names the resolver accepts),      *)
(* analyze never reaches its unimplemented arm and never panics.           *)
(***************************************************************************)
NoBareTopLevelStatement ==
    \A i \in 1..Len(result.program.body) :
        result.program.body[i].node \notin {"VariableDeclaration", "Expression"}

AtUnimplemented ==
    /\ sema_pc = "run"
    /\ work # <<>>
    /\ Head(work).op = "stmt"
    /\ Head(work).stmt.node \notin {"FunctionDeclaration", "BlockStatement"}

C30_UnimplementedOnlyAtTopLevel ==
    (/\ sema_pc # "idle"
     /\ NoBareTopLevelStatement
     /\ \A name \in PrimitiveNames(result.program.body) : AcceptedPrimitive(name))
       => (~AtUnimplemented /\ sema_pc # "panic")

====
